---- MODULE Spec2Model ----
(***************************************************************************)
(* SmartDeck: the window focuser (app_focus.py).                           *)
(*                                                                         *)
(* Strings whose contents are searched (titles, class names, process and   *)
(* application names) are sequences of one-character strings, so that      *)
(* Python's `in`, `==` and `.lower()` are computed, not assumed.           *)
(***************************************************************************)
EXTENDS Integers, Sequences, FiniteSets, TLC

\* ------------------------------------------------------------------ bounds

\* Window handles of the desktop are 1..MaxHandle.
MaxHandle == 3

Handles == 1..MaxHandle

\* ----------------------------------------------------------------- strings

S_ApplicationFrameWindow == <<"A", "p", "p", "l", "i", "c", "a", "t", "i", "o", "n", "F", "r", "a", "m", "e", "W", "i", "n", "d", "o", "w">>
S_ToolTip == <<"T", "o", "o", "l", "T", "i", "p">>
S_SysListView32 == <<"S", "y", "s", "L", "i", "s", "t", "V", "i", "e", "w", "3", "2">>
S_Button == <<"B", "u", "t", "t", "o", "n">>
S_Static == <<"S", "t", "a", "t", "i", "c">>
S_DummyDWMListenerWindow == <<"D", "u", "m", "m", "y", "D", "W", "M", "L", "i", "s", "t", "e", "n", "e", "r", "W", "i", "n", "d", "o", "w">>
S_exe == <<".", "e", "x", "e">>
S_TViewForm == <<"T", "V", "i", "e", "w", "F", "o", "r", "m">>
S_Compare == <<"C", "o", "m", "p", "a", "r", "e">>
S_Home == <<"H", "o", "m", "e">>
S_bcompare == <<"b", "c", "o", "m", "p", "a", "r", "e">>
S_BCompare == <<"B", "C", "o", "m", "p", "a", "r", "e">>
S_notepad == <<"n", "o", "t", "e", "p", "a", "d">>
S_Notes == <<"N", "o", "t", "e", "s">>
S_Edit == <<"E", "d", "i", "t">>
S_WindowOpen == <<"W", "i", "n", "d", "o", "w", " ", "(">>

\* The one character U+2014 (em dash); str.lower() leaves it as it is.
EmDash == "U+2014"

\* 'Compare — File1'
S_Compare_File1 == S_Compare \o <<" ", EmDash, " ", "F", "i", "l", "e", "1">>

UpperChars == <<"A", "B", "C", "D", "E", "F", "G", "H", "I", "J", "K", "L", "M", "N", "O", "P", "Q", "R", "S", "T", "U", "V", "W", "X", "Y", "Z">>
LowerChars == <<"a", "b", "c", "d", "e", "f", "g", "h", "i", "j", "k", "l", "m", "n", "o", "p", "q", "r", "s", "t", "u", "v", "w", "x", "y", "z">>

\* One character of str.lower().
LowerChar(c) ==
    IF \E i \in 1..Len(UpperChars) : UpperChars[i] = c
    THEN LowerChars[CHOOSE i \in 1..Len(UpperChars) : UpperChars[i] = c]
    ELSE c

\* str.lower()
Lower(s) == [i \in 1..Len(s) |-> LowerChar(s[i])]

\* Python's `p in t` on strings: p occurs in t as a contiguous substring
\* (the empty string occurs in every string).
IsSubstr(p, t) ==
    \E i \in 0..(Len(t) - Len(p)) : SubSeq(t, i + 1, i + Len(p)) = p

\* ------------------------------------------------------- values of the code

\* None / a falsy handle: what dict.get returns for a missing key.
NoHandle == 0

\* focus_window has not acted on the OS.
NoAction == -1

\* pid None: the owning process of a window could not be read.
NoPid == -1

\* No attribute lookup has raised.
NoLookups == [nameFail |-> {}, pidFail |-> {}]

\* The system classes enum_all_windows skips.
SystemClasses ==
    {S_ToolTip, S_SysListView32, S_Button, S_Static, S_DummyDWMListenerWindow}

\* The default rule of an application that has no entry in app_configs.
DefaultAppConfig ==
    [window_classes |-> {}, title_required |-> FALSE,
     title_includes |-> {}, title_excludes |-> {},
     has_process_name |-> FALSE, process_name |-> <<>>]

\* app_configs["bcompare"] of the default configuration.
BCompareConfig ==
    [window_classes |-> {S_TViewForm}, title_required |-> TRUE,
     title_includes |-> {S_Compare}, title_excludes |-> {S_Home},
     has_process_name |-> FALSE, process_name |-> <<>>]

\* ------------------------------------------------- find_app_windows (pure)

\* is_uwp_app: the rule lists the host-frame class.
is_uwp_app(app_config) ==
    /\ app_config.window_classes # {}
    /\ S_ApplicationFrameWindow \in app_config.window_classes

\* process_name: the override, or app_name + ".exe", lower-cased.
process_name_of(app_config, app_name) ==
    Lower(IF app_config.has_process_name
          THEN app_config.process_name
          ELSE app_name \o S_exe)

\* A mutant of app_pids_of: a name that only contains the application name
\* does not match.
app_pids_of_equal_only(procs, app_config, app_name) ==
    {p.pid : p \in {q \in procs :
        /\ q.readable
        /\ Lower(q.name) = process_name_of(app_config, app_name)}}

\* app_pids: pids of the processes whose name matches.  A process whose
\* name cannot be read raises inside the try and is skipped.
app_pids_of(procs, app_config, app_name) ==
    {p.pid : p \in {q \in procs :
        /\ q.readable
        /\ \/ Lower(q.name) = process_name_of(app_config, app_name)
           \/ IsSubstr(Lower(app_name), Lower(q.name))}}

\* A mutant of enum_all_windows: the system classes are not skipped.
enum_all_windows_unfiltered(h, desktop, nameFail, pidFail) ==
    IF h \in nameFail THEN <<>>
    ELSE <<[hwnd |-> h, class_name |-> desktop[h].class_name,
            title |-> desktop[h].title,
            pid |-> IF h \in pidFail THEN NoPid ELSE desktop[h].pid]>>

\* enum_all_windows on one handle: <<>> when the window is skipped, else the
\* one record appended to all_windows.  nameFail: GetClassName/GetWindowText
\* raises; pidFail: GetWindowThreadProcessId raises.
enum_all_windows(h, desktop, nameFail, pidFail) ==
    IF h \in nameFail THEN <<>>
    ELSE IF desktop[h].class_name \in SystemClasses THEN <<>>
    ELSE <<[hwnd |-> h, class_name |-> desktop[h].class_name,
            title |-> desktop[h].title,
            pid |-> IF h \in pidFail THEN NoPid ELSE desktop[h].pid]>>

\* EnumWindows: the callback applied to the top-level windows in the order
\* the OS enumerates them.
RECURSIVE EnumWindows(_, _, _, _)
EnumWindows(order, desktop, nameFail, pidFail) ==
    IF order = <<>> THEN <<>>
    ELSE enum_all_windows(Head(order), desktop, nameFail, pidFail)
         \o EnumWindows(Tail(order), desktop, nameFail, pidFail)

\* any(include in title for include in title_includes), guarded by the list
\* being non-empty.
TitleIncluded(title, app_config) ==
    /\ app_config.title_includes # {}
    /\ \E inc \in app_config.title_includes : IsSubstr(inc, title)

\* A mutant of matches_app: the application name is compared with the title
\* as written, case included.
matches_app_case_sensitive(w, pids, app_config, app_name) ==
    IF is_uwp_app(app_config) /\ w.class_name = S_ApplicationFrameWindow
    THEN TitleIncluded(w.title, app_config)
    ELSE \/ w.pid \in pids
         \/ /\ app_config.window_classes # {}
            /\ w.class_name \in app_config.window_classes
         \/ TitleIncluded(w.title, app_config)
         \/ IsSubstr(app_name, w.title)

\* A mutant of matches_app: a window has to meet the four criteria together.
matches_app_conjunctive(w, pids, app_config, app_name) ==
    IF is_uwp_app(app_config) /\ w.class_name = S_ApplicationFrameWindow
    THEN TitleIncluded(w.title, app_config)
    ELSE /\ w.pid \in pids
         /\ /\ app_config.window_classes # {}
            /\ w.class_name \in app_config.window_classes
         /\ TitleIncluded(w.title, app_config)
         /\ IsSubstr(Lower(app_name), Lower(w.title))

\* matches_app after the four criteria (or the host-frame branch).
matches_app(w, pids, app_config, app_name) ==
    IF is_uwp_app(app_config) /\ w.class_name = S_ApplicationFrameWindow
    THEN TitleIncluded(w.title, app_config)
    ELSE \/ w.pid \in pids
         \/ /\ app_config.window_classes # {}
            /\ w.class_name \in app_config.window_classes
         \/ TitleIncluded(w.title, app_config)
         \/ IsSubstr(Lower(app_name), Lower(w.title))

\* A mutant of TitleMissing: a window without a title is kept.
TitleMissingIgnored(title, app_config) == app_config.title_required /\ title # title

\* Filter 1: a title is required and the window has none.
TitleMissing(title, app_config) ==
    app_config.title_required /\ title = <<>>

\* A mutant of TitleExcluded: the exclusion filter is skipped.
TitleExcludedSkipped(title, app_config) == FALSE

\* Filter 2: the title contains one of the title_excludes.
TitleExcluded(title, app_config) ==
    \E exc \in app_config.title_excludes : IsSubstr(exc, title)

\* f"Window ({class_name})", the label that stands for an empty title.
window_label(class_name) == S_WindowOpen \o class_name \o <<")">>

\* The tuple appended to app_windows: (hwnd, pid if pid else 0, title or label).
app_window(w) ==
    [hwnd |-> w.hwnd, pid |-> IF w.pid = NoPid THEN 0 ELSE w.pid,
     title |-> IF w.title = <<>> THEN window_label(w.class_name) ELSE w.title]

\* The loop over all_windows.
RECURSIVE process_all_windows(_, _, _, _)
process_all_windows(all_windows, pids, app_config, app_name) ==
    IF all_windows = <<>> THEN <<>>
    ELSE LET w == Head(all_windows)
             rest == process_all_windows(Tail(all_windows), pids,
                                         app_config, app_name)
         IN  IF /\ matches_app(w, pids, app_config, app_name)
                /\ ~TitleMissing(w.title, app_config)
                /\ ~TitleExcluded(w.title, app_config)
             THEN <<app_window(w)>> \o rest
             ELSE rest

\* find_app_windows: the matched list, in enumeration order.
find_app_windows(order, desktop, procs, app_config, app_name, nameFail, pidFail) ==
    process_all_windows(EnumWindows(order, desktop, nameFail, pidFail),
                        app_pids_of(procs, app_config, app_name),
                        app_config, app_name)

\* ------------------------------------------------------ the selection policy

\* The position of handle h in the matched list, 0-based, or -1: the
\* enumerate loops that stop at the first hit.
IndexOf(wins, h) ==
    IF \E i \in 1..Len(wins) : wins[i].hwnd = h
    THEN (CHOOSE i \in 1..Len(wins) :
             /\ wins[i].hwnd = h
             /\ \A j \in 1..(i - 1) : wins[j].hwnd # h) - 1
    ELSE -1

\* A mutant of NextIndex: the index is advanced without wrapping to the start.
NextIndexNoWrap(i, n) == IF i + 1 < n THEN i + 1 ELSE i

\* next_index = (current_index + 1) % len(windows)
NextIndex(i, n) == (i + 1) % n

\* A mutant of focus_app_target: the first window is taken whatever is focused.
focus_app_target_first(wins, cur, last, lastIsWindow) == wins[1].hwnd

\* The handle focus_app passes to focus_window, from the matched list, the
\* foreground window, the persisted handle and whether IsWindow accepts it.
focus_app_target(wins, cur, last, lastIsWindow) ==
    LET n == Len(wins)
        last_window_valid == last # NoHandle /\ lastIsWindow
        idx == IndexOf(wins, cur)
    IN  IF last_window_valid /\ cur = last /\ idx # -1 /\ n > 1
        THEN wins[NextIndex(idx, n) + 1].hwnd
        ELSE IF idx # -1 /\ n > 1
        THEN wins[NextIndex(idx, n) + 1].hwnd
        ELSE IF last_window_valid
        THEN last
        ELSE wins[1].hwnd

\* del self.config["last_focused"][self.app_name]
forget_focus(cfg, name) ==
    [cfg EXCEPT !.last_focused[name] = NoHandle]

\* A mutant of record_focus: the handle is not recorded.
record_focus_dropped(cfg, name, h) == cfg

\* self.config["last_focused"][self.app_name] = hwnd
record_focus(cfg, name, h) ==
    [cfg EXCEPT !.last_focused[name] = h]

\* -------------------------------------------------------------------- state

VARIABLES
    desktop,        \* the live top-level windows: handle -> [class_name, title, pid]
    procs,          \* the running processes: records [pid, name, readable]
    foreground,     \* the foreground window, or NoHandle
    disk,           \* the state document as stored (app_focus.json)
    app_name,       \* self.app_name
    app_config,     \* the rule of this application
    pc,             \* where the invocation is
    config,         \* self.config, the in-memory state document
    windows,        \* focus_app's matched list
    app_pids,       \* find_app_windows' matched-process set
    lookups,        \* the windows whose attribute lookups raised in find_app_windows
    current_hwnd,   \* focus_app's reading of the foreground window
    last_hwnd,      \* focus_app's reading of the persisted handle
    hwnd,           \* the argument of focus_window
    focusCalls,     \* the handles focus_app has passed to focus_window, in order
    ctrl,           \* focus_app read the Control key as pressed
    attempted,      \* the techniques focus_window has started, in order
    verifiedBy,     \* the technique whose verification read hwnd as foreground, or 0
    lastAction,     \* the last to act on the OS in focus_window: 0 the restore at entry, k technique k
    altDown,        \* the synthesized Alt key is held
    attached,       \* the two input threads are attached
    threadCalls,    \* the AttachThreadInput calls that took effect or were issued to detach
    writes,         \* the documents focus_window has handed to save_config
    fwResult,       \* what focus_window returned: "none", "true", "false"
    launched,       \* launch_app was called in this invocation
    launchResults,  \* what each call of launch_app returned, in order
    success,        \* the result main turns into the exit status
    round           \* a round of invocations: the enumeration order it keeps, the handles selected so far

\* The tab switcher (chrome_tab_switcher.py), a program of its own.
VARIABLES
    domain,         \* self.domain
    max_tabs,       \* config["global"]["max_tabs"]
    tabs,           \* the titles of the browser window's tabs, left to right
    active,         \* the position of the active tab, from 1
    tpc,            \* where the tab switcher is
    seen_titles,    \* cycle_through_tabs: title -> position
    tabs_checked,   \* cycle_through_tabs: the counter of the loop
    keys,           \* the key combinations sent, in order
    reads,          \* the titles read from the foreground window, in order
    tests,          \* the calls of is_matching_tab in cycle_through_tabs, in order
    last_position,  \* config["last_positions"][domain] in memory
    tab_disk,       \* config["last_positions"][domain] as stored
    tab_writes,     \* the positions handed to save_config by cycle_through_tabs
    launches,       \* the calls of launch_chrome: TRUE for new_tab = True
    cycle_result,   \* what cycle_through_tabs returned: "none", "true", "false"
    tab_result      \* what focus_tab returned: "none", "true", "false"

tabVars == <<domain, max_tabs, tabs, active, tpc, seen_titles, tabs_checked, keys,
             reads, tests, last_position, tab_disk, tab_writes, launches,
             cycle_result, tab_result>>

\* The tab switcher is not running.
NoTabRun ==
    /\ domain = <<>>
    /\ max_tabs = 0
    /\ tabs = <<>>
    /\ active = 0
    /\ tpc = "off"
    /\ seen_titles = <<>>
    /\ tabs_checked = 0
    /\ keys = <<>>
    /\ reads = <<>>
    /\ tests = <<>>
    /\ last_position = 0
    /\ tab_disk = 0
    /\ tab_writes = <<>>
    /\ launches = <<>>
    /\ cycle_result = "none"
    /\ tab_result = "none"

\* The files of the two programs: the state document and the log.
VARIABLES
    program,        \* the program whose load_config and log are followed
    file,           \* the stored state document: key path -> where its value comes from
    loaded,         \* self.config after load_config, the same way
    saves,          \* the documents save_config was called with during the load
    log_file,       \* the lines of the log file, oldest first
    max_log_lines,  \* config["global"]["max_log_lines"]
    events,         \* the number of log calls made
    patterns,       \* config["url_patterns"][domain] + config["title_patterns"][domain]
    invocations,    \* two invocations of app_focus.py at once: each one's application, position, self.config
    stored          \* the content of app_focus.json when two invocations share it

fileVars == <<program, file, loaded, saves, log_file, max_log_lines, events,
              patterns, invocations, stored>>

\* Neither program's files are followed.
NoFileRun ==
    /\ program = "none"
    /\ file = <<>>
    /\ loaded = <<>>
    /\ saves = <<>>
    /\ log_file = <<>>
    /\ max_log_lines = 0
    /\ events = 0
    /\ patterns = {}
    /\ invocations = <<>>
    /\ stored = <<>>

envVars == <<desktop, procs, foreground>>
ruleVars == <<app_name, app_config>>
selVars == <<windows, app_pids, lookups, current_hwnd, last_hwnd, hwnd, focusCalls, ctrl>>
fwVars == <<attempted, verifiedBy, lastAction, altDown, attached, threadCalls,
           writes, fwResult>>
vars == <<desktop, procs, foreground, disk, app_name, app_config, pc, config,
          windows, app_pids, lookups, current_hwnd, last_hwnd, hwnd, focusCalls, ctrl,
          attempted,
          verifiedBy,
          lastAction, altDown, attached, threadCalls, writes, fwResult, launched, launchResults,
          success, round, tabVars, fileVars>>

\* The variables of the window focuser.
appVars == <<envVars, disk, ruleVars, pc, config, selVars, fwVars, launched,
             launchResults, success, round>>

IsWindow(h) == h \in DOMAIN desktop

\* The sequences that enumerate the set S once each, in any order.
Perms(S) ==
    {f \in [1..Cardinality(S) -> S] : \A i, j \in 1..Cardinality(S) : i # j => f[i] # f[j]}

MatchedHandles == {windows[i].hwnd : i \in 1..Len(windows)}

\* The applications with an entry in the state document.
AppNames == {S_bcompare, S_notepad}

\* A document with no last-focused handle.
EmptyDocument == [last_focused |-> [a \in AppNames |-> NoHandle]]

\* The processes of the desktop.
DesktopProcs ==
    {[pid |-> 1, name |-> S_BCompare \o S_exe, readable |-> TRUE],
     [pid |-> 2, name |-> S_notepad \o S_exe, readable |-> TRUE]}

\* The windows the desktop's applications open: a comparison window and the
\* home view of Beyond Compare, and an editor window.
DesktopWindowKinds ==
    {[class_name |-> S_TViewForm, title |-> S_Compare, pid |-> 1],
     [class_name |-> S_TViewForm, title |-> S_Home, pid |-> 1],
     [class_name |-> S_Edit, title |-> S_Notes, pid |-> 2]}

\* No round of invocations is being followed.
NoRound == [order |-> <<>>, selected |-> <<>>]

\* The locals of an invocation before it starts.
IdleLocals ==
    /\ pc = "idle"
    /\ config = EmptyDocument
    /\ windows = <<>>
    /\ app_pids = {}
    /\ lookups = NoLookups
    /\ current_hwnd = NoHandle
    /\ last_hwnd = NoHandle
    /\ hwnd = NoHandle
    /\ focusCalls = <<>>
    /\ ctrl = FALSE
    /\ attempted = <<>>
    /\ verifiedBy = 0
    /\ lastAction = NoAction
    /\ altDown = FALSE
    /\ attached = FALSE
    /\ threadCalls = <<>>
    /\ writes = <<>>
    /\ fwResult = "none"
    /\ launched = FALSE
    /\ launchResults = <<>>
    /\ success = "none"

Init ==
    /\ desktop = <<>>
    /\ procs = DesktopProcs
    /\ foreground = NoHandle
    /\ disk = EmptyDocument
    /\ app_name = S_bcompare
    /\ app_config = BCompareConfig
    /\ IdleLocals
    /\ round = NoRound
    /\ NoTabRun
    /\ NoFileRun

\* ------------------------------------------------------------ the desktop

\* An application opens a window.
OpenWindow ==
    /\ pc = "idle"
    /\ \E h \in Handles \ DOMAIN desktop, k \in DesktopWindowKinds :
          desktop' = [x \in DOMAIN desktop \cup {h} |-> IF x = h THEN k ELSE desktop[x]]
    /\ UNCHANGED <<procs, foreground, disk, app_name, app_config, pc, config,
                   selVars, fwVars, launched, launchResults, success, round, tabVars, fileVars>>

\* Beyond Compare switches a window between its home view and a comparison.
RetitleWindow ==
    /\ pc = "idle"
    /\ \E h \in DOMAIN desktop :
          /\ desktop[h].title \in {S_Compare, S_Home}
          /\ desktop' = [desktop EXCEPT ![h].title =
                            IF desktop[h].title = S_Home THEN S_Compare ELSE S_Home]
    /\ UNCHANGED <<procs, foreground, disk, app_name, app_config, pc, config,
                   selVars, fwVars, launched, launchResults, success, round, tabVars, fileVars>>

\* The user brings a window to the foreground.
UserFocus ==
    /\ pc = "idle"
    /\ \E h \in DOMAIN desktop : foreground' = h
    /\ UNCHANGED <<desktop, procs, disk, app_name, app_config, pc, config,
                   selVars, fwVars, launched, launchResults, success, round, tabVars, fileVars>>

\* The windows the running invocation will still look at: the foreground
\* window, and the persisted handle (before the selection) or the target
\* (before focus_window checks it).
Observed ==
    {foreground} \cup (IF pc = "found" THEN {config.last_focused[app_name]} ELSE {hwnd})

\* A window is destroyed; the OS gives the foreground to another window or
\* to none.  While an invocation runs, only the loss of a window it will
\* still look at is a step of its own: the loss of any other window is the
\* same as its loss after the exit, and a loss during the techniques of
\* focus_window shows as the OS calls on the window raising.
CloseWindow ==
    /\ pc \in {"idle", "found", "fw_entry"}
    /\ \E h \in DOMAIN desktop :
          /\ pc = "idle" \/ h \in Observed
          /\ desktop' = [x \in DOMAIN desktop \ {h} |-> desktop[x]]
          /\ IF foreground = h
             THEN foreground' \in (DOMAIN desktop \ {h}) \cup {NoHandle}
             ELSE foreground' = foreground
    /\ UNCHANGED <<procs, disk, app_name, app_config, pc, config,
                   selVars, fwVars, launched, launchResults, success, round, tabVars, fileVars>>

\* ------------------------------------------------------- main and focus_app

\* save_config: the whole in-memory document is written; the write may fail,
\* which is logged and leaves the stored document as it was.
save_config(cfg) ==
    disk' \in {cfg, disk}

\* main: the focuser is constructed and load_config reads the document.
Main_Start ==
    /\ pc = "idle"
    /\ pc' = "focus_app"
    /\ config' = disk
    /\ UNCHANGED <<envVars, disk, ruleVars, selVars, fwVars, launched, launchResults, success, round, tabVars, fileVars>>

\* launch_app: it starts the process and returns True, or returns False when
\* the shortcut has no target or when starting the process raises.
launch_app(r) ==
    /\ launched' = TRUE
    /\ launchResults' = Append(launchResults, r)

\* A mutant of FocusApp_Ctrl: the result of launch_app is dropped and
\* focus_app returns True.
FocusApp_CtrlResultDropped ==
    /\ pc = "focus_app"
    /\ ctrl' = TRUE
    /\ \E r \in {"true", "false"} : launch_app(r) /\ success' = "true"
    /\ pc' = "exit"
    /\ UNCHANGED <<envVars, disk, ruleVars, config, windows, app_pids, lookups, current_hwnd,
                   last_hwnd,
                   hwnd, focusCalls, fwVars, round, tabVars, fileVars>>

\* focus_app with the Control key held: return self.launch_app() at once.
FocusApp_Ctrl ==
    /\ pc = "focus_app"
    /\ ctrl' = TRUE
    /\ \E r \in {"true", "false"} : launch_app(r) /\ success' = r
    /\ pc' = "exit"
    /\ UNCHANGED <<envVars, disk, ruleVars, config, windows, app_pids, lookups, current_hwnd,
                   last_hwnd,
                   hwnd, focusCalls, fwVars, round, tabVars, fileVars>>

\* focus_app: windows = self.find_app_windows(), the OS enumerating the
\* windows in this order and these lookups raising.
FindWith(order, nameFail, pidFail) ==
    /\ pc = "focus_app"
    /\ windows' = find_app_windows(order, desktop, procs, app_config, app_name, nameFail, pidFail)
    /\ app_pids' = app_pids_of(procs, app_config, app_name)
    /\ lookups' = [nameFail |-> nameFail, pidFail |-> pidFail]
    /\ pc' = "found"
    /\ UNCHANGED <<envVars, disk, ruleVars, config, current_hwnd, last_hwnd, hwnd, focusCalls, ctrl,
                   fwVars, launched, launchResults, success, round, tabVars, fileVars>>

\* The empty set and the one-element subsets of S: at most one lookup raises.
AtMostOne(S) == {{}} \cup {{h} : h \in S}

\* In the desktop specification every attribute lookup succeeds; lookups
\* that raise are explored by the matcher specification (Match_Find).
FocusApp_Find ==
    \E order \in Perms(DOMAIN desktop) : FindWith(order, {}, {})

\* A mutant of FocusApp_Launch: the result of launch_app is dropped and
\* focus_app returns True.
FocusApp_LaunchResultDropped ==
    /\ pc = "found"
    /\ windows = <<>>
    /\ \E r \in {"true", "false"} : launch_app(r) /\ success' = "true"
    /\ pc' = "exit"
    /\ UNCHANGED <<envVars, disk, ruleVars, config, selVars, fwVars, round, tabVars, fileVars>>

\* focus_app: no window, so return self.launch_app().
FocusApp_Launch ==
    /\ pc = "found"
    /\ windows = <<>>
    /\ \E r \in {"true", "false"} : launch_app(r) /\ success' = r
    /\ pc' = "exit"
    /\ UNCHANGED <<envVars, disk, ruleVars, config, selVars, fwVars, round, tabVars, fileVars>>

\* focus_app: the foreground window and the persisted handle are read, a
\* handle that is no window is forgotten, and the target is chosen.
FocusApp_Select ==
    /\ pc = "found"
    /\ windows # <<>>
    /\ current_hwnd' = foreground
    /\ last_hwnd' = config.last_focused[app_name]
    /\ IF last_hwnd' # NoHandle /\ ~IsWindow(last_hwnd')
       THEN /\ config' = forget_focus(config, app_name)
            /\ save_config(config')
       ELSE UNCHANGED <<config, disk>>
    /\ hwnd' = focus_app_target(windows, current_hwnd', last_hwnd', IsWindow(last_hwnd'))
    /\ focusCalls' = Append(focusCalls, hwnd')
    /\ pc' = "fw_entry"
    /\ UNCHANGED <<envVars, ruleVars, windows, app_pids, lookups, ctrl, fwVars, launched, launchResults,
                   success, round, tabVars, fileVars>>

\* ------------------------------------------------------------ focus_window

\* The input thread of a window: one per process here.
ThreadOf(h) == desktop[h].pid

\* SetForegroundWindow returned: the OS made hwnd the foreground window, or
\* refused and left the foreground as it was.
SetForeground ==
    foreground' \in {hwnd, foreground}

\* A verification succeeded in technique k: the handle is recorded, the
\* document is saved, and True is returned.
focus_succeeded(k) ==
    /\ verifiedBy' = k
    /\ config' = record_focus(config, app_name, hwnd)
    /\ save_config(config')
    /\ writes' = Append(writes, config')

\* focus_window returns r; focus_app returns it in turn (return
\* self.focus_window(...)) and main takes it as its result.
returns(r) ==
    /\ fwResult' = r
    /\ success' = r
    /\ pc' = "exit"

\* The handle is no window: False at once.
FW_NotAWindow ==
    /\ pc = "fw_entry"
    /\ ~IsWindow(hwnd)
    /\ returns("false")
    /\ UNCHANGED <<envVars, disk, ruleVars, config, selVars, attempted, verifiedBy,
                   lastAction, altDown, attached, threadCalls, writes, launched, launchResults, round, tabVars, fileVars>>

\* A mutant of FW_Enter: the existence check at entry is missing.
FW_EnterUnchecked ==
    /\ pc = "fw_entry"
    /\ lastAction' \in {lastAction, 0}
    /\ pc' = "t1"
    /\ UNCHANGED <<envVars, disk, ruleVars, config, selVars, attempted, verifiedBy,
                   altDown, attached, threadCalls, writes, fwResult, launched, launchResults, success, round, tabVars, fileVars>>

\* The window exists; it is restored when it is minimized.
FW_Enter ==
    /\ pc = "fw_entry"
    /\ IsWindow(hwnd)
    /\ lastAction' \in {lastAction, 0}
    /\ pc' = "t1"
    /\ UNCHANGED <<envVars, disk, ruleVars, config, selVars, attempted, verifiedBy,
                   altDown, attached, threadCalls, writes, fwResult, launched, launchResults, success, round, tabVars, fileVars>>

\* IsIconic or ShowWindow raises: the outer handler returns False.
FW_EnterRaises ==
    /\ pc = "fw_entry"
    /\ IsWindow(hwnd)
    /\ returns("false")
    /\ UNCHANGED <<envVars, disk, ruleVars, config, selVars, attempted, verifiedBy,
                   lastAction, altDown, attached, threadCalls, writes, launched, launchResults, round, tabVars, fileVars>>

\* Technique 1: BringWindowToTop or SetForegroundWindow raises.
FW_T1_Raises ==
    /\ pc = "t1"
    /\ attempted' = Append(attempted, 1)
    /\ lastAction' \in {lastAction, 1}
    /\ pc' = "t2"
    /\ UNCHANGED <<envVars, disk, ruleVars, config, selVars, verifiedBy,
                   altDown, attached, threadCalls, writes, fwResult, launched, launchResults, success, round, tabVars, fileVars>>

\* Technique 1: raise, request the foreground, verify.
FW_T1_Attempt ==
    /\ pc = "t1"
    /\ IsWindow(hwnd)
    /\ attempted' = Append(attempted, 1)
    /\ lastAction' = 1
    /\ SetForeground
    /\ IF foreground' = hwnd
       THEN /\ focus_succeeded(1)
            /\ returns("true")
       ELSE /\ pc' = "t2"
            /\ UNCHANGED <<config, disk, writes, verifiedBy, fwResult, success>>
    /\ UNCHANGED <<desktop, procs, ruleVars, selVars, altDown, attached, threadCalls,
                   launched, launchResults, round, tabVars, fileVars>>

\* Technique 2: the Alt key is pressed, then BringWindowToTop or
\* SetForegroundWindow raises and the handler is entered with the key held.
FW_T2_Raises ==
    /\ pc = "t2"
    /\ attempted' = Append(attempted, 2)
    /\ altDown' = TRUE
    /\ lastAction' = 2
    /\ pc' = "t3"
    /\ UNCHANGED <<envVars, disk, ruleVars, config, selVars, verifiedBy,
                   attached, threadCalls, writes, fwResult, launched, launchResults, success, round, tabVars, fileVars>>

\* Technique 2: press Alt, raise, request the foreground, release Alt, verify.
FW_T2_Attempt ==
    /\ pc = "t2"
    /\ IsWindow(hwnd)
    /\ attempted' = Append(attempted, 2)
    /\ lastAction' = 2
    /\ altDown' = FALSE
    /\ SetForeground
    /\ IF foreground' = hwnd
       THEN /\ focus_succeeded(2)
            /\ returns("true")
       ELSE /\ pc' = "t3"
            /\ UNCHANGED <<config, disk, writes, verifiedBy, fwResult, success>>
    /\ UNCHANGED <<desktop, procs, ruleVars, selVars, attached, threadCalls,
                   launched, launchResults, round, tabVars, fileVars>>

\* The guard of technique 3: there is a foreground window, and its thread
\* and the target's are two threads.
CanAttach ==
    /\ foreground # NoHandle
    /\ IsWindow(foreground)
    /\ IsWindow(hwnd)
    /\ ThreadOf(foreground) # ThreadOf(hwnd)

\* A mutant of attach_detach: the detach is not in a finally clause, and an
\* exception skips it.
attach_no_finally(detachRaised) ==
    LET pair == <<ThreadOf(hwnd), ThreadOf(foreground)>>
    IN  /\ threadCalls' = Append(threadCalls,
               [attach |-> TRUE, pair |-> pair, raised |-> FALSE])
        /\ attached' = TRUE

\* AttachThreadInput(target_thread, cur_thread, True) and, from the finally
\* clause, AttachThreadInput(target_thread, cur_thread, False), which
\* raised or not; both calls take the thread pair read before the attach.
\* A detach that raised has failed: the threads may still be attached.
attach_detach(detachRaised) ==
    LET pair == <<ThreadOf(hwnd), ThreadOf(foreground)>>
    IN  /\ threadCalls' = threadCalls \o
               <<[attach |-> TRUE, pair |-> pair, raised |-> FALSE],
                 [attach |-> FALSE, pair |-> pair, raised |-> detachRaised]>>
        /\ attached' \in (IF detachRaised THEN BOOLEAN ELSE {FALSE})

\* Technique 3 does nothing: no foreground window, one thread, or the
\* thread lookup or AttachThreadInput(True) raises.
FW_T3_Skip ==
    /\ pc = "t3"
    /\ attempted' = Append(attempted, 3)
    /\ pc' = "t4"
    /\ UNCHANGED <<envVars, disk, ruleVars, config, selVars, verifiedBy, lastAction,
                   altDown, attached, threadCalls, writes, fwResult, launched, launchResults, success, round, tabVars, fileVars>>

\* Technique 3: the threads are attached, then a focus call raises; the
\* finally clause detaches, and the detach itself may raise.
FW_T3_Raises ==
    /\ pc = "t3"
    /\ CanAttach
    /\ attempted' = Append(attempted, 3)
    /\ lastAction' = 3
    /\ \E detachRaised \in BOOLEAN : attach_detach(detachRaised)
    /\ pc' = "t4"
    /\ UNCHANGED <<envVars, disk, ruleVars, config, selVars, verifiedBy,
                   altDown, writes, fwResult, launched, launchResults, success, round, tabVars, fileVars>>

\* Technique 3: attach, raise, request the foreground, activate, verify,
\* detach.  A detach that raises replaces the return by the exception, which
\* the handler of technique 3 catches: technique 4 follows.
FW_T3_Attempt ==
    /\ pc = "t3"
    /\ CanAttach
    /\ attempted' = Append(attempted, 3)
    /\ lastAction' = 3
    /\ SetForeground
    /\ \E detachRaised \in BOOLEAN :
          /\ attach_detach(detachRaised)
          /\ IF foreground' = hwnd
             THEN /\ focus_succeeded(3)
                  /\ IF detachRaised
                     THEN pc' = "t4" /\ UNCHANGED <<fwResult, success>>
                     ELSE returns("true")
             ELSE /\ pc' = "t4"
                  /\ UNCHANGED <<config, disk, writes, verifiedBy, fwResult, success>>
    /\ UNCHANGED <<desktop, procs, ruleVars, selVars, altDown,
                   launched, launchResults, round, tabVars, fileVars>>

\* Technique 4: the pid lookup, AllowSetForegroundWindow, BringWindowToTop
\* or SetForegroundWindow raises: all techniques failed.
FW_T4_Raises ==
    /\ pc = "t4"
    /\ attempted' = Append(attempted, 4)
    /\ lastAction' \in {lastAction, 4}
    /\ returns("false")
    /\ UNCHANGED <<envVars, disk, ruleVars, config, selVars, verifiedBy,
                   altDown, attached, threadCalls, writes, launched, launchResults, round, tabVars, fileVars>>

\* Technique 4: allow the target process, raise, request the foreground,
\* verify.
FW_T4_Attempt ==
    /\ pc = "t4"
    /\ IsWindow(hwnd)
    /\ attempted' = Append(attempted, 4)
    /\ lastAction' = 4
    /\ SetForeground
    /\ IF foreground' = hwnd
       THEN /\ focus_succeeded(IF verifiedBy = 0 THEN 4 ELSE verifiedBy)
            /\ returns("true")
       ELSE /\ returns("false")
            /\ UNCHANGED <<config, disk, writes, verifiedBy>>
    /\ UNCHANGED <<desktop, procs, ruleVars, selVars, altDown, attached, threadCalls,
                   launched, launchResults, round, tabVars, fileVars>>

\* An OS query of focus_app raises (the key state, the process or window
\* enumeration; with a non-empty list the foreground and IsWindow queries):
\* main reports the critical error.
FocusApp_Raises ==
    /\ pc = "focus_app" \/ (pc = "found" /\ windows # <<>>)
    /\ success' = "false"
    /\ pc' = "exit"
    /\ UNCHANGED <<envVars, disk, ruleVars, config, selVars, fwVars, launched, launchResults, round, tabVars, fileVars>>

\* sys.exit(0 if success else 1)
ExitStatus == IF success = "true" THEN 0 ELSE 1

\* The process has exited; the next invocation starts from the stored
\* document alone.
ProcessExit ==
    /\ pc = "exit"
    /\ pc' = "idle"
    /\ config' = EmptyDocument
    /\ windows' = <<>>
    /\ app_pids' = {}
    /\ lookups' = NoLookups
    /\ current_hwnd' = NoHandle
    /\ last_hwnd' = NoHandle
    /\ hwnd' = NoHandle
    /\ focusCalls' = <<>>
    /\ ctrl' = FALSE
    /\ attempted' = <<>>
    /\ verifiedBy' = 0
    /\ lastAction' = NoAction
    /\ altDown' = FALSE
    /\ attached' = FALSE
    /\ threadCalls' = <<>>
    /\ writes' = <<>>
    /\ fwResult' = "none"
    /\ launched' = FALSE
    /\ launchResults' = <<>>
    /\ success' = "none"
    /\ UNCHANGED <<envVars, disk, ruleVars, tabVars, fileVars>>

Main_Exit ==
    /\ ProcessExit
    /\ UNCHANGED round

\* main with --debug-windows and a target: debug_windows is called outside
\* any try; no focuser is constructed.
Main_StartDebugWindows ==
    /\ pc = "idle"
    /\ pc' = "debug_windows"
    /\ UNCHANGED <<envVars, disk, ruleVars, config, selVars, fwVars, launched,
                   launchResults, success, round, tabVars, fileVars>>

\* debug_windows prints its report and calls sys.exit(0).
Debug_Windows ==
    /\ pc = "debug_windows"
    /\ pc' = "debug_exit"
    /\ UNCHANGED <<envVars, disk, ruleVars, config, selVars, fwVars, launched,
                   launchResults, success, round, tabVars, fileVars>>

\* The process enumeration, EnumWindows or IsWindowVisible raises in
\* debug_windows: nothing catches it and the interpreter ends the process
\* with a traceback.
Debug_WindowsRaises ==
    /\ pc = "debug_windows"
    /\ pc' = "uncaught"
    /\ UNCHANGED <<envVars, disk, ruleVars, config, selVars, fwVars, launched,
                   launchResults, success, round, tabVars, fileVars>>

\* The process of a --debug-windows run has ended.
Debug_Exit ==
    /\ pc \in {"debug_exit", "uncaught"}
    /\ pc' = "idle"
    /\ UNCHANGED <<envVars, disk, ruleVars, config, selVars, fwVars, launched,
                   launchResults, success, round, tabVars, fileVars>>

debug_windows ==
    Main_StartDebugWindows \/ Debug_Windows \/ Debug_WindowsRaises \/ Debug_Exit

Environment == OpenWindow \/ RetitleWindow \/ UserFocus \/ CloseWindow

focus_window ==
    \/ FW_NotAWindow \/ FW_Enter \/ FW_EnterRaises
    \/ FW_T1_Raises \/ FW_T1_Attempt
    \/ FW_T2_Raises \/ FW_T2_Attempt
    \/ FW_T3_Skip \/ FW_T3_Raises \/ FW_T3_Attempt
    \/ FW_T4_Raises \/ FW_T4_Attempt

focus_app ==
    \/ FocusApp_Ctrl \/ FocusApp_Find \/ FocusApp_Launch \/ FocusApp_Select
    \/ FocusApp_Raises

Next ==
    \/ Environment \/ Main_Start \/ focus_app \/ focus_window \/ Main_Exit
    \/ debug_windows

Spec == Init /\ [][Next]_vars

\* ------------------------------------------- the matcher, on drawn inputs

\* Snapshots of the matcher specification hold at most this many windows.
MaxMatchWindows == 2

S_sp == <<" ">>

\* The windows of the drawn snapshots: one per way of qualifying (process
\* id, class, title-include, application name in the title), with and
\* without an excluded or empty title, a host-frame window, a system window.
MatchWindowKinds ==
    {[class_name |-> S_TViewForm, title |-> S_Compare_File1, pid |-> 1],
     [class_name |-> S_Edit, title |-> S_Notes, pid |-> 1],
     [class_name |-> S_Edit, title |-> S_Home, pid |-> 1],
     [class_name |-> S_Edit, title |-> <<>>, pid |-> 1],
     [class_name |-> S_TViewForm, title |-> S_Home, pid |-> 2],
     [class_name |-> S_Edit, title |-> S_Compare \o S_sp \o S_Home, pid |-> 2],
     [class_name |-> S_Edit, title |-> S_BCompare, pid |-> 2],
     [class_name |-> S_Edit, title |-> S_BCompare \o S_sp \o S_Home, pid |-> 2],
     [class_name |-> S_ApplicationFrameWindow, title |-> S_Compare, pid |-> 2],
     [class_name |-> S_ApplicationFrameWindow,
      title |-> S_Compare \o S_sp \o S_Home, pid |-> 2],
     [class_name |-> S_ToolTip, title |-> S_BCompare \o S_sp \o S_Compare, pid |-> 1]}

\* The drawn rules.
MatchRules ==
    [window_classes : {{}, {S_TViewForm}, {S_ApplicationFrameWindow}},
     title_required : BOOLEAN,
     title_includes : {{}, {S_Compare}},
     title_excludes : {{}, {S_Home}},
     has_process_name : {FALSE},
     process_name : {<<>>}]

\* The drawn snapshots: windows 1..n in enumeration order, each of any kind.
MatchDesktops ==
    UNION {[1..n -> MatchWindowKinds] : n \in 0..MaxMatchWindows}

InitMatch ==
    /\ desktop \in MatchDesktops
    /\ procs = DesktopProcs
    /\ foreground = NoHandle
    /\ disk = EmptyDocument
    /\ app_name = S_bcompare
    /\ app_config \in MatchRules
    /\ pc = "focus_app"
    /\ config = EmptyDocument
    /\ windows = <<>>
    /\ app_pids = {}
    /\ lookups = NoLookups
    /\ current_hwnd = NoHandle
    /\ last_hwnd = NoHandle
    /\ hwnd = NoHandle
    /\ focusCalls = <<>>
    /\ ctrl = FALSE
    /\ attempted = <<>>
    /\ verifiedBy = 0
    /\ lastAction = NoAction
    /\ altDown = FALSE
    /\ attached = FALSE
    /\ threadCalls = <<>>
    /\ writes = <<>>
    /\ fwResult = "none"
    /\ launched = FALSE
    /\ launchResults = <<>>
    /\ success = "none"
    /\ round = NoRound
    /\ NoTabRun
    /\ NoFileRun

\* find_app_windows on the drawn snapshot, which lists the windows in the
\* order the OS enumerates them, with at most one attribute lookup raising.
Match_Find ==
    \E nameFail \in AtMostOne(DOMAIN desktop),
       pidFail \in AtMostOne(DOMAIN desktop) :
        /\ nameFail = {} \/ pidFail = {}
        /\ FindWith([i \in DOMAIN desktop |-> i], nameFail, pidFail)

NextMatch == Match_Find

SpecMatch == InitMatch /\ [][NextMatch]_vars

\* find_app_windows on the drawn snapshot when every attribute lookup
\* succeeds.
Match_FindNoFault ==
    /\ pc = "focus_app"
    /\ FindWith([i \in DOMAIN desktop |-> i], {}, {})

NextMatchNoFault == Match_FindNoFault

SpecMatchNoFault == InitMatch /\ [][NextMatchNoFault]_vars

\* ------------------------------------------------------------------ claims

\* ------------------------------------- rounds of consecutive invocations

\* The desktops the desktop specification reaches between invocations.
Desktops ==
    UNION {[D -> DesktopWindowKinds] : D \in SUBSET Handles}

\* The matched list of a round: the desktop does not change during a round
\* and the OS enumerates it in the same order at every invocation.
RoundWindows ==
    find_app_windows(round.order, desktop, procs, app_config, app_name, {}, {})

RoundHandles == {RoundWindows[i].hwnd : i \in 1..Len(RoundWindows)}

\* A round starts between two invocations, with any desktop, any stored
\* handle, and the foreground on one of the application's windows.
InitRound ==
    /\ desktop \in Desktops
    /\ procs = DesktopProcs
    /\ disk \in {[EmptyDocument EXCEPT !.last_focused[S_bcompare] = h] :
                   h \in Handles \cup {NoHandle}}
    /\ app_name = S_bcompare
    /\ app_config = BCompareConfig
    /\ IdleLocals
    /\ round \in [order : Perms(DOMAIN desktop), selected : {<<>>}]
    /\ foreground \in RoundHandles
    /\ NoTabRun
    /\ NoFileRun

\* main starts again until the round has run one invocation per window.
Round_Start ==
    /\ Len(round.selected) < Len(RoundWindows)
    /\ Main_Start

\* find_app_windows, the OS enumerating in the round's order.
Round_Find ==
    /\ round.order \in Perms(DOMAIN desktop)
    /\ FindWith(round.order, {}, {})

\* focus_window succeeds at once: the OS grants the foreground and the
\* document is written.
Round_Focus ==
    /\ FW_T1_Attempt
    /\ foreground' = hwnd
    /\ disk' = config'

\* The invocation is over; the round notes the handle it selected.
Round_Exit ==
    /\ ProcessExit
    /\ round' = [round EXCEPT !.selected = Append(@, hwnd)]

NextRound ==
    \/ Round_Start \/ Round_Find \/ FocusApp_Select
    \/ FW_Enter \/ Round_Focus \/ Round_Exit

SpecRound == InitRound /\ [][NextRound]_vars

\* --------------------------------------------------- cycle_app_windows

\* cycle_app_windows is called on a focuser between two changes of the
\* desktop: any desktop, any stored handle, any foreground window.
InitCycle ==
    /\ desktop \in Desktops
    /\ procs = DesktopProcs
    /\ disk \in {[EmptyDocument EXCEPT !.last_focused[S_bcompare] = h] :
                   h \in Handles \cup {NoHandle}}
    /\ app_name = S_bcompare
    /\ app_config = BCompareConfig
    /\ IdleLocals
    /\ round = NoRound
    /\ foreground \in DOMAIN desktop \cup {NoHandle}
    /\ NoTabRun
    /\ NoFileRun

\* The focuser is constructed (load_config) and cycle_app_windows is called.
Cycle_Start ==
    /\ focusCalls = <<>>
    /\ Main_Start

\* windows = self.find_app_windows()
Cycle_Find ==
    /\ pc = "focus_app"
    /\ FocusApp_Find

\* No window: return False.
Cycle_NoWindows ==
    /\ pc = "found"
    /\ windows = <<>>
    /\ success' = "false"
    /\ pc' = "exit"
    /\ UNCHANGED <<envVars, disk, ruleVars, config, selVars, fwVars, launched,
                   launchResults, round, tabVars, fileVars>>

\* The persisted handle is forgotten, and the document saved, when it is
\* not the handle of a matched window.
cycle_forget ==
    LET last == config.last_focused[app_name]
    IN  /\ last_hwnd' = last
        /\ IF last # NoHandle /\ last \notin MatchedHandles
           THEN /\ config' = forget_focus(config, app_name)
                /\ save_config(config')
           ELSE UNCHANGED <<config, disk>>

\* The first target: the first window when the foreground window is not in
\* the list or the list has one window, else the window after it.
cycle_target(wins, cur) ==
    LET idx == IndexOf(wins, cur)
    IN  IF idx = -1 \/ Len(wins) = 1 THEN wins[1].hwnd
        ELSE wins[NextIndex(idx, Len(wins)) + 1].hwnd

\* A mutant of cycle_retry_target: the window that failed is tried again.
cycle_retry_same(wins, cur) ==
    wins[NextIndex(IndexOf(wins, cur), Len(wins)) + 1].hwnd

\* next_next_index = (next_index + 1) % len(windows)
cycle_retry_target(wins, cur) ==
    wins[NextIndex(NextIndex(IndexOf(wins, cur), Len(wins)), Len(wins)) + 1].hwnd

\* The list is not empty: the persisted handle is checked against it, the
\* foreground window is read and the first target is passed to
\* focus_window.
Cycle_Select ==
    /\ pc = "found"
    /\ windows # <<>>
    /\ cycle_forget
    /\ current_hwnd' = foreground
    /\ hwnd' = cycle_target(windows, current_hwnd')
    /\ focusCalls' = Append(focusCalls, hwnd')
    /\ pc' = "fw_entry"
    /\ UNCHANGED <<envVars, ruleVars, windows, app_pids, lookups, ctrl, fwVars,
                   launched, launchResults, success, round, tabVars, fileVars>>

\* GetForegroundWindow raises: the handler passes the first window to
\* focus_window and returns its result.
Cycle_SelectRaises ==
    /\ pc = "found"
    /\ windows # <<>>
    /\ cycle_forget
    /\ current_hwnd' = NoHandle
    /\ hwnd' = windows[1].hwnd
    /\ focusCalls' = Append(focusCalls, hwnd')
    /\ pc' = "fw_entry"
    /\ UNCHANGED <<envVars, ruleVars, windows, app_pids, lookups, ctrl, fwVars,
                   launched, launchResults, success, round, tabVars, fileVars>>

\* if not focus_success and len(windows) > 1, on the path that cycled to
\* the next window.
RetryDue ==
    /\ pc = "exit"
    /\ fwResult = "false"
    /\ Len(focusCalls) = 1
    /\ Len(windows) > 1
    /\ IndexOf(windows, current_hwnd) # -1

\* "Focus failed, trying another window": focus_window is called on the
\* window after the one that failed, and its result is returned.
Cycle_Retry ==
    /\ RetryDue
    /\ hwnd' = cycle_retry_target(windows, current_hwnd)
    /\ focusCalls' = Append(focusCalls, hwnd')
    /\ attempted' = <<>>
    /\ verifiedBy' = 0
    /\ lastAction' = NoAction
    /\ fwResult' = "none"
    /\ success' = "none"
    /\ pc' = "fw_entry"
    /\ UNCHANGED <<envVars, disk, ruleVars, config, windows, app_pids, lookups,
                   current_hwnd, last_hwnd, ctrl, altDown, attached, threadCalls,
                   writes, launched, launchResults, round, tabVars, fileVars>>

cycle_app_windows ==
    \/ Cycle_Start \/ Cycle_Find \/ Cycle_NoWindows \/ Cycle_Select
    \/ Cycle_SelectRaises \/ Cycle_Retry

NextCycle == cycle_app_windows \/ focus_window \/ CloseWindow

SpecCycle == InitCycle /\ [][NextCycle]_vars

\* ------------------------------------------------------ the tab switcher

S_github_com == <<"g", "i", "t", "h", "u", "b", ".", "c", "o", "m">>
S_perplexity_ai == <<"p", "e", "r", "p", "l", "e", "x", "i", "t", "y", ".", "a", "i">>
S_www == <<"w", "w", "w", ".">>
S_https == <<"h", "t", "t", "p", "s", ":", "/", "/">>
S_im_looking_for == <<"i", "'", "m", " ", "l", "o", "o", "k", "i", "n", "g", " ", "f", "o", "r">>
S_perplexity_search == <<"p", "e", "r", "p", "l", "e", "x", "i", "t", "y", " ", "s", "e", "a", "r", "c", "h">>
S_perplexity_dash == <<"p", "e", "r", "p", "l", "e", "x", "i", "t", "y", " ", "-", " ">>
S_perplexity_ai_words == <<"p", "e", "r", "p", "l", "e", "x", "i", "t", "y", " ", "a", "i">>
S_perplexity_ai_search == <<"p", "e", "r", "p", "l", "e", "x", "i", "t", "y", ".", "a", "i", "/", "s", "e", "a", "r", "c", "h">>
S_GitHub == <<"G", "i", "t", "H", "u", "b">>
S_Docs == <<"D", "o", "c", "s">>
S_News == <<"N", "e", "w", "s">>

\* Tabs open in the browser window: at most MaxTabs.
MaxTabs == 3

\* The configured max_tabs is drawn from 1..MaxTabsLimit.
MaxTabsLimit == 3

\* domain.split('.')[0]: the characters before the first dot.
first_label(d) ==
    IF \E i \in 1..Len(d) : d[i] = "."
    THEN SubSeq(d, 1, (CHOOSE i \in 1..Len(d) :
                          d[i] = "." /\ \A j \in 1..(i - 1) : d[j] # ".") - 1)
    ELSE d

\* domain_specific_patterns
domain_specific_patterns(d) ==
    IF d = S_perplexity_ai
    THEN {S_im_looking_for, S_perplexity_search, S_perplexity_dash,
          S_perplexity_ai_words, S_perplexity_ai_search}
    ELSE {}

\* base_patterns
base_patterns(d) ==
    {d, S_www \o d, d \o <<"/">>, S_www \o d \o <<"/">>, S_https \o d,
     S_https \o S_www \o d, first_label(d)}

\* all_patterns; extra stands for the configured url_patterns and
\* title_patterns of the domain.
all_patterns(d, extra) ==
    base_patterns(d) \cup domain_specific_patterns(d) \cup extra

\* A mutant of is_matching_tab: the title and the patterns are compared as
\* they are written.
is_matching_tab_case_sensitive(title, d, extra) ==
    IF d = <<>> THEN TRUE
    ELSE IF title = <<>> THEN FALSE
    ELSE \E pattern \in all_patterns(d, extra) : IsSubstr(pattern, title)

\* is_matching_tab
is_matching_tab(title, d, extra) ==
    IF d = <<>> THEN TRUE
    ELSE IF title = <<>> THEN FALSE
    ELSE \E pattern \in all_patterns(d, extra) : IsSubstr(Lower(pattern), Lower(title))

\* The titles of the tabs: one that matches github.com, two that do not, and
\* the empty title.
TabTitles == {S_GitHub, S_Docs, S_News, <<>>}

\* No extra patterns are configured for the domain.
ExtraPatterns == {}

Matches(title) == is_matching_tab(title, domain, ExtraPatterns)

\* GetWindowText(GetForegroundWindow()): the title of the active tab.
current_title == tabs[active]

\* The tab switcher starts on a browser window with at most n tabs, on any
\* of them; no position is stored yet for the domain (load_config stores 0).
TabsStart(n) ==
    /\ desktop = <<>>
    /\ procs = DesktopProcs
    /\ foreground = NoHandle
    /\ disk = EmptyDocument
    /\ app_name = S_bcompare
    /\ app_config = BCompareConfig
    /\ IdleLocals
    /\ round = NoRound
    /\ NoFileRun
    /\ domain = S_github_com
    /\ tabs \in UNION {[1..k -> TabTitles] : k \in 0..n}
    /\ active \in (IF tabs = <<>> THEN {0} ELSE 1..Len(tabs))
    /\ tpc = "start"
    /\ seen_titles = <<>>
    /\ tabs_checked = 0
    /\ keys = <<>>
    /\ reads = <<>>
    /\ tests = <<>>
    /\ tab_disk = 0
    /\ last_position = 0
    /\ tab_writes = <<>>
    /\ launches = <<>>
    /\ cycle_result = "none"
    /\ tab_result = "none"

InitTabs ==
    /\ TabsStart(MaxTabs)
    /\ max_tabs \in 1..MaxTabsLimit

\* A page changes its title while the switcher runs.
RetitleTab ==
    /\ tpc \in {"start", "cycle", "jump", "loop"}
    /\ \E i \in 1..Len(tabs), t \in TabTitles :
          /\ t # tabs[i]
          /\ tabs' = [tabs EXCEPT ![i] = t]
    /\ UNCHANGED <<appVars, fileVars, domain, max_tabs, active, tpc, seen_titles, tabs_checked,
                   keys, reads, tests, last_position, tab_disk, tab_writes,
                   launches, cycle_result, tab_result>>

\* A title has been read after the keys sent so far; seen: the title is in
\* seen_titles when it is read.
read_title(t, ks) ==
    reads' = Append(reads, [title |-> t, keys |-> Len(ks),
                            seen |-> t \in DOMAIN seen_titles])

\* A mutant of loop_continues: one more turn of the loop.
loop_continues_late == tabs_checked <= max_tabs

\* while tabs_checked < max_tabs
loop_continues == tabs_checked < max_tabs

\* A mutant of already_seen: a title seen before is treated like any other.
never_seen(title) == title \in {}

\* if current_title in seen_titles
already_seen(title) == title \in DOMAIN seen_titles

\* is_matching_tab is called on a title read after the keys sent so far;
\* recorded: the title is in seen_titles at the call; result: what the call
\* returns.
test_title(t, ks, seen) ==
    tests' = Append(tests, [title |-> t, keys |-> Len(ks),
                            recorded |-> t \in DOMAIN seen,
                            result |-> Matches(t)])

\* launch_chrome: True, or False when starting the browser raises.
launch_chrome(new_tab) ==
    /\ launches' = Append(launches, new_tab)
    /\ tab_result' \in {"true", "false"}
    /\ tpc' = "done"

\* focus_tab: no browser window is found, or focusing it fails three
\* times: a new browser instance is launched.
FT_NoWindow ==
    /\ tpc = "start"
    /\ launch_chrome(FALSE)
    /\ UNCHANGED <<appVars, fileVars, domain, max_tabs, tabs, active, seen_titles, tabs_checked,
                   keys, reads, tests, last_position, tab_disk, tab_writes,
                   cycle_result>>

\* focus_tab: the window is focused and the title of the active tab
\* matches: a new tab is opened.
FT_AlreadyFocused ==
    /\ tpc = "start"
    /\ tabs # <<>>
    /\ Matches(current_title)
    /\ read_title(current_title, keys)
    /\ launch_chrome(TRUE)
    /\ UNCHANGED <<appVars, fileVars, domain, max_tabs, tabs, active, seen_titles, tabs_checked,
                   keys, tests, last_position, tab_disk, tab_writes, cycle_result>>

\* focus_tab: the window is focused and the title of the active tab does not
\* match: cycle_through_tabs is called.
FT_Cycle ==
    /\ tpc = "start"
    /\ tabs # <<>>
    /\ ~Matches(current_title)
    /\ read_title(current_title, keys)
    /\ tpc' = "cycle"
    /\ UNCHANGED <<appVars, fileVars, domain, max_tabs, tabs, active, seen_titles, tabs_checked,
                   keys, tests, last_position, tab_disk, tab_writes, launches,
                   cycle_result, tab_result>>

\* A mutant of cycle_found: the position after the matching tab is recorded.
cycle_found_next(position) ==
    /\ last_position' = position + 1
    /\ tab_disk' \in {position + 1, tab_disk}
    /\ tab_writes' = Append(tab_writes, position + 1)
    /\ cycle_result' = "true"
    /\ tab_result' = "true"
    /\ tpc' = "done"

\* cycle_through_tabs returns True, and so does focus_tab.
cycle_found(position) ==
    /\ last_position' = position
    /\ tab_disk' \in {position, tab_disk}
    /\ tab_writes' = Append(tab_writes, position)
    /\ cycle_result' = "true"
    /\ tab_result' = "true"
    /\ tpc' = "done"

\* A mutant of after_current_check: the loop is entered without the jump.
straight_to_loop == "loop"

\* After the check of the current tab: "Start by going to the leftmost tab".
after_current_check == "jump"

\* cycle_through_tabs: the current tab is checked first.
CT_Current ==
    /\ tpc = "cycle"
    /\ read_title(current_title, keys)
    /\ test_title(current_title, keys, seen_titles)
    /\ IF Matches(current_title)
       THEN /\ cycle_result' = "true"
            /\ tab_result' = "true"
            /\ tpc' = "done"
       ELSE /\ tpc' = after_current_check
            /\ UNCHANGED <<cycle_result, tab_result>>
    /\ UNCHANGED <<appVars, fileVars, domain, max_tabs, tabs, active, seen_titles, tabs_checked,
                   keys, last_position, tab_disk, tab_writes, launches>>

\* cycle_through_tabs: ctrl+1, then the leftmost tab is read and checked.
CT_Jump ==
    /\ tpc = "jump"
    /\ keys' = Append(keys, "ctrl+1")
    /\ active' = 1
    /\ LET first_title == tabs[active']
       IN  /\ read_title(first_title, keys')
           /\ test_title(first_title, keys', seen_titles)
           /\ IF Matches(first_title)
              THEN /\ cycle_found(0)
                   /\ UNCHANGED <<seen_titles, tabs_checked>>
              ELSE /\ seen_titles' = (first_title :> 0)
                   /\ tabs_checked' = 1
                   /\ tpc' = "loop"
                   /\ UNCHANGED <<last_position, tab_disk, tab_writes,
                                  cycle_result, tab_result>>
    /\ UNCHANGED <<appVars, fileVars, domain, max_tabs, tabs, launches>>

\* cycle_through_tabs, one turn of the loop: ctrl+tab, the title is read; a
\* title already seen ends the loop, another is recorded and then checked.
CT_Next ==
    /\ tpc = "loop"
    /\ loop_continues
    /\ keys' = Append(keys, "ctrl+tab")
    /\ active' = (active % Len(tabs)) + 1
    /\ LET title == tabs[active']
       IN  /\ read_title(title, keys')
           /\ IF already_seen(title)
              THEN /\ cycle_result' = "false"
                   /\ tpc' = "not_found"
                   /\ UNCHANGED <<seen_titles, tests, tabs_checked, last_position,
                                  tab_disk, tab_writes, tab_result>>
              ELSE /\ seen_titles' = [t \in DOMAIN seen_titles \cup {title} |->
                                         IF t = title THEN tabs_checked
                                         ELSE seen_titles[t]]
                   /\ test_title(title, keys', seen_titles')
                   /\ IF Matches(title)
                      THEN /\ cycle_found(tabs_checked)
                           /\ UNCHANGED tabs_checked
                      ELSE /\ tabs_checked' = tabs_checked + 1
                           /\ UNCHANGED <<tpc, last_position, tab_disk, tab_writes,
                                          cycle_result, tab_result>>
    /\ UNCHANGED <<appVars, fileVars, domain, max_tabs, tabs, launches>>

\* cycle_through_tabs: tabs_checked has reached max_tabs.
CT_Exhausted ==
    /\ tpc = "loop"
    /\ ~loop_continues
    /\ cycle_result' = "false"
    /\ tpc' = "not_found"
    /\ UNCHANGED <<appVars, fileVars, domain, max_tabs, tabs, active, seen_titles, tabs_checked,
                   keys, reads, tests, last_position, tab_disk, tab_writes,
                   launches, tab_result>>

\* focus_tab: cycle_through_tabs returned False, a new tab is opened.
FT_NewTab ==
    /\ tpc = "not_found"
    /\ launch_chrome(TRUE)
    /\ UNCHANGED <<appVars, fileVars, domain, max_tabs, tabs, active, seen_titles, tabs_checked,
                   keys, reads, tests, last_position, tab_disk, tab_writes,
                   cycle_result>>

focus_tab == FT_NoWindow \/ FT_AlreadyFocused \/ FT_Cycle \/ FT_NewTab

cycle_through_tabs == CT_Current \/ CT_Jump \/ CT_Next \/ CT_Exhausted

NextTabs == RetitleTab \/ focus_tab \/ cycle_through_tabs

SpecTabs == InitTabs /\ [][NextTabs]_vars

\* ---------------------------------------------- the matched-process set

\* At most MaxProcs processes run.
MaxProcs == 3

S_BC4 == <<"B", "C", "4">>
S_64 == <<"6", "4">>

\* The processes drawn: names that equal the default process name but for
\* the case, that only contain the application name, that match an override
\* only, that match nothing; two whose name cannot be read.
ProcKinds ==
    {[pid |-> 1, name |-> S_BCompare \o S_exe, readable |-> TRUE],
     [pid |-> 2, name |-> S_notepad \o S_exe, readable |-> TRUE],
     [pid |-> 3, name |-> S_BC4 \o S_exe, readable |-> TRUE],
     [pid |-> 4, name |-> S_BCompare \o S_64 \o S_exe, readable |-> TRUE],
     [pid |-> 5, name |-> S_BCompare \o S_exe, readable |-> FALSE],
     [pid |-> 6, name |-> S_BC4 \o S_exe, readable |-> FALSE]}

\* The rules drawn: no process_name, one written as the process shows it,
\* one in lower case.
ProcRules ==
    {DefaultAppConfig,
     [DefaultAppConfig EXCEPT !.has_process_name = TRUE,
                              !.process_name = S_BC4 \o S_exe],
     [DefaultAppConfig EXCEPT !.has_process_name = TRUE,
                              !.process_name = S_notepad \o S_exe]}

InitProcs ==
    /\ desktop = <<>>
    /\ procs \in {P \in SUBSET ProcKinds : Cardinality(P) <= MaxProcs}
    /\ foreground = NoHandle
    /\ disk = EmptyDocument
    /\ app_name \in {S_bcompare, S_notepad}
    /\ app_config \in ProcRules
    /\ IdleLocals
    /\ round = NoRound
    /\ NoTabRun
    /\ NoFileRun

\* The program is started.
Procs_Start ==
    /\ pc = "idle"
    /\ pc' = "focus_app"
    /\ UNCHANGED <<envVars, disk, ruleVars, config, selVars, fwVars, launched,
                   launchResults, success, round, tabVars, fileVars>>

\* find_app_windows on a desktop without windows.
Procs_Find ==
    /\ pc = "focus_app"
    /\ FindWith(<<>>, {}, {})

NextProcs == Procs_Start \/ Procs_Find

SpecProcs == InitProcs /\ [][NextProcs]_vars

\* ------------------------------------------- the state document and log

\* A state document is followed by its keys: a key path (<<section>>, or
\* <<section, key>>) is mapped to "doc" when its value comes from the stored
\* file and to "default" when load_config took it from default_config.

\* The top-level sections of default_config.
Sections(prog) ==
    IF prog = "app_focus"
    THEN {"global", "window_classes", "last_focused", "app_configs"}
    ELSE {"global", "last_positions", "urls"}

\* The keys of default_config["global"].
Tunables(prog) ==
    IF prog = "app_focus"
    THEN {"launch_timeout", "focus_retry_delay", "max_retries", "max_log_lines",
          "tab_switch_delay", "max_tabs", "debug"}
    ELSE {"max_tabs", "tab_switch_delay", "launch_timeout", "focus_retry_delay",
          "max_retries", "max_log_lines"}

\* The key of the current domain in "urls" and "last_positions".
DomainKey == "github.com"

\* A key default_config does not know.
CustomKey == "custom"

\* What default_config[sec] brings when the whole section is taken from it.
DefaultSection(prog, sec) ==
    {<<sec>>} \cup
    (IF sec = "global" THEN {<<"global", t>> : t \in Tunables(prog)}
     ELSE IF prog = "app_focus" /\ sec = "app_configs"
     THEN {<<"app_configs", "bcompare">>, <<"app_configs", "git-bash">>}
     ELSE IF prog # "app_focus" /\ sec = "urls"
     THEN {<<"urls", "claude.ai">>, <<"urls", "perplexity.ai">>}
     ELSE {})

\* The document d with the paths of P that it lacks, taken from the defaults.
WithDefaults(d, P) ==
    [q \in DOMAIN d \cup P |-> IF q \in DOMAIN d THEN d[q] ELSE "default"]

\* "Ensure all sections exist", then "Ensure all global parameters exist".
ensure_sections(prog, d) ==
    LET missing == {sec \in Sections(prog) : <<sec>> \notin DOMAIN d}
        d1 == WithDefaults(d, UNION {DefaultSection(prog, sec) : sec \in missing})
    IN  WithDefaults(d1, {<<"global", t>> : t \in Tunables(prog)})

\* load_config of app_focus.py on an existing document: <<self.config, the
\* documents save_config was called with>>.
load_config_app(d) ==
    LET d2 == ensure_sections("app_focus", d)
    IN  IF <<"app_configs", "git-bash">> \notin DOMAIN d2
        THEN LET d3 == WithDefaults(d2, {<<"app_configs", "git-bash">>})
             IN  <<d3, <<d3>>>>
        ELSE <<d2, <<>>>>

\* load_config of chrome_tab_switcher.py on an existing document.
load_config_chrome(d) ==
    LET d2 == ensure_sections("chrome_tab_switcher", d)
        noUrl == <<"urls", DomainKey>> \notin DOMAIN d2
        d3 == IF noUrl THEN WithDefaults(d2, {<<"urls", DomainKey>>}) ELSE d2
        noPos == <<"last_positions", DomainKey>> \notin DOMAIN d3
        d4 == IF noPos THEN WithDefaults(d3, {<<"last_positions", DomainKey>>}) ELSE d3
    IN  <<d4, (IF noUrl THEN <<d3>> ELSE <<>>) \o (IF noPos THEN <<d4>> ELSE <<>>)>>

load_config(prog, d) ==
    IF prog = "app_focus" THEN load_config_app(d) ELSE load_config_chrome(d)

\* Stored documents lack at most MaxAbsent keys of "global" when they have
\* the section.
MaxAbsent == 1

\* The keys under the sections that load_config looks at one by one.
Entries(prog) ==
    IF prog = "app_focus" THEN {<<"app_configs", "git-bash">>}
    ELSE {<<"urls", DomainKey>>, <<"last_positions", DomainKey>>}

\* The stored documents drawn: any set of top-level keys, known or not; a
\* "global" section complete but for at most MaxAbsent keys, with or without
\* an unknown key; the entries load_config looks at, present or not.
Documents(prog) ==
    LET gkeys == Tunables(prog) \cup {CustomKey}
        ofKeys(top, absent, entries) ==
            {<<k>> : k \in top}
            \cup (IF "global" \in top THEN {<<"global", k>> : k \in gkeys \ absent}
                  ELSE {})
            \cup {e \in entries : e[1] \in top}
    IN  {[q \in ofKeys(top, absent, entries) |-> "doc"] :
            top \in SUBSET (Sections(prog) \cup {CustomKey}),
            absent \in {A \in SUBSET gkeys : Cardinality(A) <= MaxAbsent},
            entries \in SUBSET Entries(prog)}

\* log of chrome_tab_switcher.py keeps existing_lines[-(max_lines - 1):] when
\* the file holds max_lines lines or more; lst[-0:] is the whole list.
last_lines(lst, k) ==
    IF k = 0 \/ k >= Len(lst) THEN lst
    ELSE SubSeq(lst, Len(lst) - k + 1, Len(lst))

\* log of chrome_tab_switcher.py: the file after the call.
chrome_log(lines, line, max_lines) ==
    (IF Len(lines) >= max_lines THEN last_lines(lines, max_lines - 1) ELSE lines)
    \o <<line>>

\* log of app_focus.py: the line is appended to the file.
app_log(lines, line) == Append(lines, line)

\* The configured max_log_lines are 1..MaxLogLines; MaxEvents log calls are
\* followed.
MaxLogLines == 3
MaxEvents == 5

InitFiles ==
    /\ desktop = <<>>
    /\ procs = DesktopProcs
    /\ foreground = NoHandle
    /\ disk = EmptyDocument
    /\ app_name = S_bcompare
    /\ app_config = BCompareConfig
    /\ IdleLocals
    /\ round = NoRound
    /\ NoTabRun
    /\ program \in {"app_focus", "chrome_tab_switcher"}
    /\ file \in Documents(program)
    /\ loaded = <<>>
    /\ saves = <<>>
    /\ log_file = <<>>
    /\ max_log_lines \in 1..MaxLogLines
    /\ events = 0
    /\ patterns = {}
    /\ invocations = <<>>
    /\ stored = <<>>

\* __init__ calls load_config on the stored document: self.config is set,
\* each save_config rewrites the stored document, and app_focus.py logs the
\* addition of the git-bash rule.
Load_Config ==
    /\ loaded = <<>>
    /\ LET r == load_config(program, file)
           added == program = "app_focus" /\ r[2] # <<>>
       IN  /\ loaded' = r[1]
           /\ saves' = r[2]
           /\ file' = IF r[2] = <<>> THEN file ELSE r[2][Len(r[2])]
           /\ events' = IF added THEN events + 1 ELSE events
           /\ log_file' = IF added THEN app_log(log_file, events') ELSE log_file
    /\ UNCHANGED <<appVars, tabVars, program, max_log_lines, patterns, invocations,
                   stored>>

\* One log call of the running program; the events are numbered.
Log_Event ==
    /\ loaded # <<>>
    /\ events < MaxEvents
    /\ events' = events + 1
    /\ log_file' = IF program = "app_focus"
                   THEN app_log(log_file, events')
                   ELSE chrome_log(log_file, events', max_log_lines)
    /\ UNCHANGED <<appVars, tabVars, program, file, loaded, saves, max_log_lines,
                   patterns, invocations, stored>>

NextFiles == Load_Config \/ Log_Event

SpecFiles == InitFiles /\ [][NextFiles]_vars

\* --------------------------------------------- is_matching_tab on its own

S_Im_looking_for_Perplexity == <<"I", "'", "m", " ", "l", "o", "o", "k", "i", "n", "g", " ", "f", "o", "r", " ", "-", " ", "P", "e", "r", "p", "l", "e", "x", "i", "t", "y">>
S_Im_Looking_For == <<"I", "'", "m", " ", "L", "o", "o", "k", "i", "n", "g", " ", "F", "o", "r">>
S_DOCS == <<"D", "O", "C", "S">>

\* The titles tested: the scenario's title, one that holds only a
\* domain-specific pattern of perplexity.ai, one that holds the first label
\* of github.com, one that holds no built-in pattern, and the empty title.
TestedTitles == {S_Im_looking_for_Perplexity, S_Im_Looking_For, S_GitHub, S_Docs, <<>>}

\* The configured extra patterns: none, one written in upper case, the
\* empty pattern.
ConfiguredPatterns == {{}, {S_DOCS}, {<<>>}}

\* At most MaxTitles titles are tested in a run.
MaxTitles == 2

InitTitles ==
    /\ desktop = <<>>
    /\ procs = DesktopProcs
    /\ foreground = NoHandle
    /\ disk = EmptyDocument
    /\ app_name = S_bcompare
    /\ app_config = BCompareConfig
    /\ IdleLocals
    /\ round = NoRound
    /\ domain \in {S_github_com, S_perplexity_ai}
    /\ max_tabs = 0
    /\ tabs \in UNION {[1..k -> TestedTitles] : k \in 1..MaxTitles}
    /\ active = 1
    /\ tpc = "off"
    /\ seen_titles = <<>>
    /\ tabs_checked = 0
    /\ keys = <<>>
    /\ reads = <<>>
    /\ tests = <<>>
    /\ last_position = 0
    /\ tab_disk = 0
    /\ tab_writes = <<>>
    /\ launches = <<>>
    /\ cycle_result = "none"
    /\ tab_result = "none"
    /\ program = "chrome_tab_switcher"
    /\ file = <<>>
    /\ loaded = <<>>
    /\ saves = <<>>
    /\ log_file = <<>>
    /\ max_log_lines = MaxLogLines
    /\ events = 0
    /\ patterns \in ConfiguredPatterns
    /\ invocations = <<>>
    /\ stored = <<>>

\* is_matching_tab is called on the title of the active tab, and the next
\* tab becomes active; a non-empty title is logged, then the patterns, then
\* the outcome.
Title_Test ==
    /\ active <= Len(tabs)
    /\ LET t == tabs[active]
           n == IF t = <<>> THEN 0 ELSE 3
           l1 == chrome_log(log_file, events + 1, max_log_lines)
           l2 == chrome_log(l1, events + 2, max_log_lines)
           l3 == chrome_log(l2, events + 3, max_log_lines)
       IN  /\ tests' = Append(tests, [title |-> t, keys |-> 0, recorded |-> FALSE,
                                      result |-> is_matching_tab(t, domain, patterns)])
           /\ events' = events + n
           /\ log_file' = IF n = 0 THEN log_file ELSE l3
    /\ active' = active + 1
    /\ UNCHANGED <<appVars, domain, max_tabs, tabs, tpc, seen_titles, tabs_checked,
                   keys, reads, last_position, tab_disk, tab_writes, launches,
                   cycle_result, tab_result, program, file, loaded, saves,
                   max_log_lines, patterns, invocations, stored>>

NextTitles == Title_Test

SpecTitles == InitTitles /\ [][NextTitles]_vars

\* ------------------------------------- two invocations, one state document

\* The applications in the order json.dump writes their entries.
AppOrder == <<S_bcompare, S_notepad>>

\* The documents: a last-focused handle, or none, per application.
StateDocuments == {[last_focused |-> f] : f \in [AppNames -> Handles \cup {NoHandle}]}

\* json.dump(self.config, f): the text of the document, one piece for the
\* opening brace, one per recorded entry, one for the closing brace.
json_dump(cfg) ==
    LET piece(a) == [kind |-> "entry", app |-> a, hwnd |-> cfg.last_focused[a]]
        recorded(a) == cfg.last_focused[a] # NoHandle
        entries == SelectSeq(AppOrder, recorded)
    IN  <<[kind |-> "{", app |-> <<>>, hwnd |-> NoHandle]>>
        \o [i \in 1..Len(entries) |-> piece(entries[i])]
        \o <<[kind |-> "}", app |-> <<>>, hwnd |-> NoHandle]>>

\* json.load(f) in load_config: the document whose text the file holds; a
\* text that is no document raises, and the handler takes default_config.
json_load(text) ==
    IF \E d \in StateDocuments : json_dump(d) = text
    THEN CHOOSE d \in StateDocuments : json_dump(d) = text
    ELSE EmptyDocument

\* The file after text was written from its start through a handle opened
\* before: what the file held beyond the end of text stays.
written_over(content, text) ==
    text \o SubSeq(content, Len(text) + 1, Len(content))

\* The two invocations.
Invocations == {1, 2}

InitShared ==
    /\ desktop = <<>>
    /\ procs = DesktopProcs
    /\ foreground = NoHandle
    /\ disk = EmptyDocument
    /\ app_name = S_bcompare
    /\ app_config = BCompareConfig
    /\ IdleLocals
    /\ round = NoRound
    /\ NoTabRun
    /\ program = "app_focus"
    /\ file = <<>>
    /\ loaded = <<>>
    /\ saves = <<>>
    /\ log_file = <<>>
    /\ max_log_lines = 0
    /\ events = 0
    /\ patterns = {}
    /\ \E a \in [Invocations -> AppNames] :
          invocations = [i \in Invocations |->
                            [app_name |-> a[i], at |-> "start",
                             config |-> EmptyDocument, wrote |-> 0]]
    /\ \E d \in StateDocuments : stored = json_dump(d)

\* Invocation i goes to position at with this config and write number.
inv_step(i, at, cfg, wrote) ==
    invocations' = [invocations EXCEPT ![i] =
                       [app_name |-> invocations[i].app_name, at |-> at,
                        config |-> cfg, wrote |-> wrote]]

\* __init__: load_config reads the document once.
Inv_Load(i) ==
    /\ invocations[i].at = "start"
    /\ inv_step(i, "loaded", json_load(stored), 0)
    /\ UNCHANGED <<appVars, tabVars, program, file, loaded, saves, log_file,
                   max_log_lines, events, patterns, stored>>

\* focus_app ends without a verified focus (a launch, or focus_window
\* returning False): nothing is recorded and nothing is written.
Inv_NoFocus(i) ==
    /\ invocations[i].at = "loaded"
    /\ inv_step(i, "done", invocations[i].config, 0)
    /\ UNCHANGED <<appVars, tabVars, program, file, loaded, saves, log_file,
                   max_log_lines, events, patterns, stored>>

\* focus_window verified the handle h as the foreground window:
\* self.config["last_focused"][self.app_name] = hwnd, then save_config.
Inv_Focused(i) ==
    /\ invocations[i].at = "loaded"
    /\ \E h \in Handles :
          inv_step(i, "save_config",
                   record_focus(invocations[i].config, invocations[i].app_name, h), 0)
    /\ UNCHANGED <<appVars, tabVars, program, file, loaded, saves, log_file,
                   max_log_lines, events, patterns, stored>>

\* save_config: open(self.CONFIG_FILE, 'w') empties the file.
Inv_Open(i) ==
    /\ invocations[i].at = "save_config"
    /\ stored' = <<>>
    /\ inv_step(i, "json.dump", invocations[i].config, 0)
    /\ UNCHANGED <<appVars, tabVars, program, file, loaded, saves, log_file,
                   max_log_lines, events, patterns>>

\* save_config: open raises; the error is logged and nothing is written.
Inv_OpenRaises(i) ==
    /\ invocations[i].at = "save_config"
    /\ inv_step(i, "done", invocations[i].config, 0)
    /\ UNCHANGED <<appVars, tabVars, program, file, loaded, saves, log_file,
                   max_log_lines, events, patterns, stored>>

\* save_config: json.dump writes the whole in-memory document from the
\* start of the file, and the file is closed.
Inv_Dump(i) ==
    /\ invocations[i].at = "json.dump"
    /\ stored' = written_over(stored, json_dump(invocations[i].config))
    /\ inv_step(i, "done", invocations[i].config,
                1 + Cardinality({j \in Invocations : invocations[j].wrote > 0}))
    /\ UNCHANGED <<appVars, tabVars, program, file, loaded, saves, log_file,
                   max_log_lines, events, patterns>>

NextShared ==
    \E i \in Invocations :
        \/ Inv_Load(i) \/ Inv_NoFocus(i) \/ Inv_Focused(i)
        \/ Inv_Open(i) \/ Inv_OpenRaises(i) \/ Inv_Dump(i)

SpecShared == InitShared /\ [][NextShared]_vars

\* A run during which no page changes its title.
NextTabsStill == focus_tab \/ cycle_through_tabs

SpecTabsStill == InitTabs /\ [][NextTabsStill]_vars

\* The switcher runs to its end: its own steps are taken as long as one is
\* possible, whatever the pages do meanwhile.
MaxFairTabs == 2

InitTabsFair ==
    /\ TabsStart(MaxFairTabs)
    /\ max_tabs \in 1..MaxTabsLimit

SpecTabsFair ==
    InitTabsFair /\ [][NextTabs]_vars /\ WF_vars(focus_tab \/ cycle_through_tabs)

\* ------------------------------------------------------------- the claims

\* C1: find_app_windows never returns a window whose title contains one of
\* the rule's title-exclude substrings, however the window qualified.
C1_ExcludedNeverMatched ==
    pc = "found" =>
        \A i \in 1..Len(windows) :
            \A exc \in app_config.title_excludes :
                ~IsSubstr(exc, desktop[windows[i].hwnd].title)

\* The window h of the snapshot qualifies under the rule.
Qualifies(h) ==
    /\ desktop[h].class_name \notin SystemClasses
    /\ matches_app([hwnd |-> h, class_name |-> desktop[h].class_name,
                    title |-> desktop[h].title, pid |-> desktop[h].pid],
                   app_pids_of(procs, app_config, app_name), app_config, app_name)

\* C1's case: of two windows that qualify by the application name in the
\* title, the one whose title also holds an excluded substring is left out.
C1_Witness ==
    /\ pc = "found"
    /\ app_config.title_excludes = {S_Home}
    /\ DOMAIN desktop = {1, 2}
    /\ desktop[1].title = S_BCompare \o S_sp \o S_Home
    /\ desktop[2].title = S_BCompare
    /\ Qualifies(1)
    /\ MatchedHandles = {2}

\* C4, as claimed: in a round over N matched windows the handles selected
\* are distinct members of the matched set, so that N invocations select
\* every window of the set exactly once.
C4_RoundRobin ==
    /\ \A i \in 1..Len(round.selected) : round.selected[i] \in RoundHandles
    /\ \A i, j \in 1..Len(round.selected) :
           i # j => round.selected[i] # round.selected[j]
    /\ Len(round.selected) = Len(RoundWindows) =>
           {round.selected[i] : i \in 1..Len(round.selected)} = RoundHandles

\* last_window_valid, as focus_app leaves it: the persisted handle was read
\* and IsWindow accepted it, so the entry was kept.
LastWindowValid ==
    last_hwnd # NoHandle /\ config.last_focused[app_name] = last_hwnd

\* focus_app has chosen its target and is calling focus_window.
Selected == pc = "fw_entry"

\* C2: whenever the matched list has exactly one window, the handle focus_app
\* passes to focus_window is that window.
C2_SingleWindowSelected ==
    (Selected /\ Len(windows) = 1) => hwnd = windows[1].hwnd

\* C3, as claimed: whenever the persisted handle is in the matched list and
\* is not the foreground window, focus_app selects it.
C3_ResumeLastFocused ==
    (Selected /\ last_hwnd \in MatchedHandles /\ last_hwnd # current_hwnd)
        => hwnd = last_hwnd

\* C3, amended: whenever the persisted handle is in the matched list, is
\* still a window when focus_app checks it, is not the foreground window, and
\* the foreground window is not in the matched list or the list has one
\* window, focus_app selects the persisted handle.
C3_ResumeWhenNotCycling ==
    (/\ Selected
     /\ last_hwnd \in MatchedHandles
     /\ LastWindowValid
     /\ last_hwnd # current_hwnd
     /\ current_hwnd \notin MatchedHandles \/ Len(windows) = 1)
        => hwnd = last_hwnd

\* The case the claim singles out, on its own: the persisted handle is in the
\* matched list and still a window, and the foreground window is a different
\* member of a list of more than one window.  focus_app cycles from the
\* foreground window instead, so this fails with three windows.
C3_ResumeWhileCycling ==
    (/\ Selected
     /\ last_hwnd \in MatchedHandles
     /\ LastWindowValid
     /\ last_hwnd # current_hwnd
     /\ current_hwnd \in MatchedHandles
     /\ Len(windows) > 1)
        => hwnd = last_hwnd

\* C3's case: three matched windows, the persisted one resumed while a
\* window outside the list is in the foreground.
C3_Witness ==
    /\ Selected
    /\ Len(windows) = 3
    /\ last_hwnd \in MatchedHandles
    /\ LastWindowValid
    /\ current_hwnd \notin MatchedHandles
    /\ hwnd = last_hwnd
    /\ hwnd # windows[1].hwnd

\* C5: with more than one matched window, no persisted handle, and the
\* foreground window at index i of the list, focus_app selects the window at
\* index (i + 1) mod N; in [h1, h2, h3], h2 is followed by h3 and h3 by h1.
C5_NextAfterForeground ==
    (Selected /\ last_hwnd = NoHandle /\ Len(windows) > 1)
        => /\ \A i \in 1..Len(windows) :
                 windows[i].hwnd = current_hwnd
                     => hwnd = windows[IF i = Len(windows) THEN 1 ELSE i + 1].hwnd
           /\ (/\ [i \in 1..Len(windows) |-> windows[i].hwnd] = <<1, 2, 3>>
               /\ current_hwnd = 2) => hwnd = 3
           /\ (/\ [i \in 1..Len(windows) |-> windows[i].hwnd] = <<1, 2, 3>>
               /\ current_hwnd = 3) => hwnd = 1

\* C5's case: the list [h1, h2, h3] with h3 in the foreground wraps to h1.
C5_Witness ==
    /\ Selected
    /\ last_hwnd = NoHandle
    /\ [i \in 1..Len(windows) |-> windows[i].hwnd] = <<1, 2, 3>>
    /\ current_hwnd = 3
    /\ hwnd = 1

\* C6: if the persisted handle is not in the matched list, focus_app has
\* removed the entry before it chooses, and the handle is not the one chosen.
C6_StaleHandleCleared ==
    (Selected /\ last_hwnd # NoHandle /\ last_hwnd \notin MatchedHandles)
        => /\ config.last_focused[app_name] = NoHandle
           /\ hwnd # last_hwnd

\* C7: every handle focus_app passes to focus_window is in the matched list
\* of the same invocation.
C7_TargetIsMatched ==
    hwnd # NoHandle => hwnd \in MatchedHandles

\* C8: the techniques are attempted in the order 1, 2, 3, 4; once a technique
\* has verified the target as foreground no later technique is attempted or
\* acts, and focus_window returns success.
C8_TechniquesInOrder ==
    /\ \A i \in 1..Len(attempted) : attempted[i] = i
    /\ verifiedBy # 0 =>
          /\ Len(attempted) = verifiedBy
          /\ lastAction <= verifiedBy
          /\ pc = "exit" => fwResult = "true"

\* C9: whenever focus_window(h) returns success, the in-memory document holds
\* h for the application and the last document handed to storage in this
\* call is that document.
C9_SuccessIsRecorded ==
    fwResult = "true"
        => /\ config.last_focused[app_name] = hwnd
           /\ writes # <<>>
           /\ writes[Len(writes)] = config

\* C9's case: technique 1 fails, technique 2 succeeds on the only window.
C9_Witness ==
    /\ fwResult = "true"
    /\ Len(windows) = 1
    /\ attempted = <<1, 2>>
    /\ verifiedBy = 2
    /\ config.last_focused[app_name] = hwnd

\* C10: if the handle is no window when focus_window is entered, focus_window
\* returns failure without any OS action (no restore, no technique, no key
\* held, no thread attached) and without changing or writing the document.
C10_StaleHandleFailsFast ==
    [][(pc = "fw_entry" /\ ~IsWindow(hwnd) /\ pc' # "fw_entry")
         => /\ pc' = "exit"
            /\ fwResult' = "false"
            /\ attempted' = <<>>
            /\ lastAction' = NoAction
            /\ altDown' = FALSE
            /\ attached' = FALSE
            /\ config' = config
            /\ disk' = disk
            /\ writes' = <<>>]_vars

\* Every attach of threadCalls is followed at once by a detach call for the
\* same thread pair.
DetachFollowsAttach ==
    \A i \in 1..Len(threadCalls) :
        threadCalls[i].attach =>
            /\ i < Len(threadCalls)
            /\ ~threadCalls[i + 1].attach
            /\ threadCalls[i + 1].pair = threadCalls[i].pair

C10_Witness ==
    /\ pc = "exit"
    /\ hwnd # NoHandle
    /\ ~IsWindow(hwnd)
    /\ fwResult = "false"
    /\ attempted = <<>>

\* C12, as claimed: when focus_window has failed for the selected handle and
\* the matched list has more than one window, the invocation has made one
\* further selection, of another handle, and tried to focus it before it
\* reports failure.
C12_RetryAfterFailure ==
    (pc = "exit" /\ fwResult = "false" /\ Len(windows) > 1)
        => /\ Len(focusCalls) = 2
           /\ focusCalls[2] # focusCalls[1]

\* C13: when find_app_windows has returned the empty list, focus_app calls
\* launch_app once, calls focus_window not at all, leaves the document in
\* memory and in storage as it was, and returns what launch_app returned.
C13_EmptySetLaunches ==
    [][(pc = "found" /\ windows = <<>> /\ pc' # "found")
         => /\ pc' = "exit"
            /\ launchResults' = Append(launchResults, success')
            /\ Len(launchResults') = 1
            /\ success' \in {"true", "false"}
            /\ focusCalls' = <<>>
            /\ attempted' = <<>>
            /\ fwResult' = "none"
            /\ config' = config
            /\ disk' = disk]_vars

\* C13's case: windows are open but none is the application's, the Control
\* key is not held, and the one launch failed.
C13_Witness ==
    /\ pc = "exit"
    /\ ~ctrl
    /\ DOMAIN desktop # {}
    /\ windows = <<>>
    /\ launchResults = <<"false">>
    /\ success = "false"
    /\ focusCalls = <<>>

\* The final action of the invocation succeeded: the target window was
\* verified as the foreground window, or the last launch returned True.
FinalActionSucceeded ==
    \/ verifiedBy # 0
    \/ launchResults # <<>> /\ launchResults[Len(launchResults)] = "true"

\* C14, as claimed: the exit status is 0 exactly when the final action,
\* focusing a window or launching the application, succeeded.
C14_ExitStatus ==
    pc = "exit" => (ExitStatus = 0 <=> FinalActionSucceeded)

\* The number of times a key combination has been sent.
KeysSent(k) == Cardinality({i \in DOMAIN keys : keys[i] = k})

\* The number of titles read after the jump to the first tab.
ReadsAfterJump == Cardinality({i \in DOMAIN reads : reads[i].keys >= 1})

CycleBounded ==
    /\ ReadsAfterJump <= max_tabs
    /\ KeysSent("ctrl+tab") <= max_tabs - 1
    /\ tpc = "loop" => tabs_checked = KeysSent("ctrl+tab") + 1

\* C15: whatever titles the window shows (all equal, all different, changing
\* without end), cycle_through_tabs reads at most max_tabs titles after the
\* jump to the first tab, sends at most max_tabs - 1 next-tab keys, and the
\* run ends.
C15_TerminatesWithinBound == [](CycleBounded) /\ <>(tpc = "done")

\* The loop ran to the limit: max_tabs titles read after the jump, none seen
\* twice, none matching.
C15_Witness ==
    /\ tpc = "not_found"
    /\ max_tabs >= 2
    /\ ReadsAfterJump = max_tabs
    /\ KeysSent("ctrl+tab") = max_tabs - 1
    /\ \A i \in DOMAIN reads : ~reads[i].seen

\* The tabs the cycle can reach: the first max_tabs of the window, and the
\* tab in the foreground at the start as long as no key has moved away from it.
ReachableTabs ==
    {i \in DOMAIN tabs : i <= max_tabs} \cup (IF keys = <<>> THEN {active} ELSE {})

\* C16: in a run on a focused browser window whose titles do not change,
\* when one of the first max_tabs tabs, or the tab in the foreground at the
\* start, matches the domain, the run ends on a matching tab and opens no
\* new tab.
C16_NewTabOnlyWhenNoneMatches ==
    (/\ tpc = "done"
     /\ launches # <<FALSE>>
     /\ \E i \in ReachableTabs : Matches(tabs[i]))
    => (launches = <<>> /\ Matches(current_title))

\* C17 as stated: the jump to the first tab is sent before any title is
\* tested and before any next-tab key, and success is never reported for a
\* title read before the jump.
C17_JumpBeforeAnyTest ==
    /\ \A i \in DOMAIN tests : tests[i].keys >= 1
    /\ \A i \in DOMAIN keys : keys[i] = "ctrl+tab" => (i > 1 /\ keys[1] = "ctrl+1")
    /\ cycle_result = "true" => keys # <<>>

\* C17: cycle_through_tabs tests the title of the current tab before any key
\* is sent and reports success for it when it matches; every other title is
\* tested after the jump to the first tab, which is the first key sent and
\* is sent once, before any next-tab key.
C17_JumpAfterCurrentCheck ==
    /\ \A i \in DOMAIN tests : tests[i].keys = 0 <=> i = 1
    /\ \A i \in DOMAIN keys : keys[i] = "ctrl+1" <=> i = 1
    /\ keys # <<>> => ~tests[1].result
    /\ (cycle_result = "true" /\ keys = <<>>) =>
           (Len(tests) = 1 /\ tests[1].result)

\* Success for a title read after the jump and one next-tab key, the current
\* tab having been tested first.
C17_Witness ==
    /\ tpc = "done"
    /\ cycle_result = "true"
    /\ keys = <<"ctrl+1", "ctrl+tab">>
    /\ Len(tests) = 3
    /\ tests[1].keys = 0

\* C18: a title read after a next-tab key that is already in seen_titles is
\* the last one read: no key follows, it is not tested and the cycle returns
\* failure; any other title read after a next-tab key is tested, and is in
\* seen_titles when it is tested.
C18_SeenTitleStopsCycle ==
    \A i \in DOMAIN reads :
        reads[i].keys >= 2 =>
            IF reads[i].seen
            THEN /\ i = Len(reads)
                 /\ Len(keys) = reads[i].keys
                 /\ cycle_result = "false"
                 /\ \A j \in DOMAIN tests : tests[j].keys # reads[i].keys
            ELSE \E j \in DOMAIN tests :
                     /\ tests[j].keys = reads[i].keys
                     /\ tests[j].title = reads[i].title
                     /\ tests[j].recorded

\* A title seen before came back after a next-tab key, following a title
\* that was new and was tested.
C18_Witness ==
    /\ tpc = "done"
    /\ Len(keys) = 3
    /\ reads[Len(reads)].seen
    /\ ~reads[Len(reads) - 1].seen
    /\ Len(tests) = 3
    /\ launches = <<TRUE>>

\* C19: the list returned by find_app_windows is in ascending order of
\* handle, in whatever order the OS enumerates the windows.
C19_SortedByHandle ==
    pc = "found" =>
        \A i, j \in 1..Len(windows) : i < j => windows[i].hwnd < windows[j].hwnd

\* The four criteria of C20 for window h of the snapshot, one by one.
ByProcess(h) == desktop[h].pid \in app_pids_of(procs, app_config, app_name)

ByClass(h) ==
    /\ app_config.window_classes # {}
    /\ desktop[h].class_name \in app_config.window_classes

ByTitleInclude(h) ==
    \E inc \in app_config.title_includes : IsSubstr(inc, desktop[h].title)

ByAppName(h) == IsSubstr(Lower(app_name), Lower(desktop[h].title))

\* Window h passes the system-class pre-filter and neither of the two
\* filters applied after qualification drops it.
Unfiltered(h) ==
    /\ desktop[h].class_name \notin SystemClasses
    /\ ~TitleMissing(desktop[h].title, app_config)
    /\ ~TitleExcluded(desktop[h].title, app_config)

CompareAndHome(a, b) ==
    /\ DOMAIN desktop = {a, b}
    /\ a # b
    /\ desktop[a].class_name = S_TViewForm
    /\ desktop[a].title = S_Compare_File1
    /\ desktop[b].class_name = S_TViewForm
    /\ desktop[b].title = S_Home

\* C21: under the rule {classes: [TViewForm], title_required, include:
\* [Compare], exclude: [Home]}, of the windows 'Compare - File1' (with an em
\* dash) and 'Home', both of class TViewForm, find_app_windows returns the
\* first one and nothing else.
C21_CompareWindowOnly ==
    \A a, b \in DOMAIN desktop :
        (pc = "found" /\ app_config = BCompareConfig /\ CompareAndHome(a, b)) =>
            (Len(windows) = 1 /\ windows[1].hwnd = a)

\* The scenario of C21 after find_app_windows, the home view enumerated
\* first.
C21_Witness ==
    /\ pc = "found"
    /\ app_config = BCompareConfig
    /\ CompareAndHome(2, 1)
    /\ windows = <<[hwnd |-> 2, pid |-> 1, title |-> S_Compare_File1]>>

\* C22: under a rule in host-frame mode, every window returned by
\* find_app_windows has a title that contains one of the rule's
\* title-includes, whatever its class, its process and the rule's class list.
C22_HostFrameTitleOnly ==
    (pc = "found" /\ is_uwp_app(app_config)) =>
        \A h \in MatchedHandles : ByTitleInclude(h)

\* C23: a window of one of the system classes is never in the list returned
\* by find_app_windows, whatever its process and its title.
C23_SystemClassNeverMatched ==
    pc = "found" =>
        \A h \in MatchedHandles : desktop[h].class_name \notin SystemClasses

\* A tooltip of a matched process, whose title holds the application name
\* and a title-include, is left out; the window next to it is returned.
C23_Witness ==
    /\ pc = "found"
    /\ DOMAIN desktop = {1, 2}
    /\ desktop[1].class_name = S_ToolTip
    /\ ByProcess(1) /\ ByAppName(1) /\ ByTitleInclude(1)
    /\ ~TitleMissing(desktop[1].title, app_config)
    /\ ~TitleExcluded(desktop[1].title, app_config)
    /\ MatchedHandles = {2}

\* C24: when the rule requires a title, no window with an empty title is in
\* the list returned by find_app_windows; when it does not, every qualifying
\* window with an empty title and no excluded substring is in the list.
C24_EmptyTitleFilter ==
    pc = "found" =>
        IF app_config.title_required
        THEN \A h \in MatchedHandles : desktop[h].title # <<>>
        ELSE \A h \in DOMAIN desktop :
                 (/\ desktop[h].title = <<>>
                  /\ Qualifies(h)
                  /\ ~TitleExcluded(desktop[h].title, app_config))
                 => h \in MatchedHandles

\* A title is required: the window without a title, which qualifies, is
\* left out, and the window next to it is returned.
C24_Witness ==
    /\ pc = "found"
    /\ app_config.title_required
    /\ DOMAIN desktop = {1, 2}
    /\ desktop[1].title = <<>>
    /\ Qualifies(1)
    /\ MatchedHandles = {2}

\* The rule's process-name override, or the default: application name +
\* '.exe'.
ProcessNameOverride ==
    IF app_config.has_process_name THEN app_config.process_name
    ELSE app_name \o S_exe

\* C25 as stated: the matched-process set is the set of pids of the running
\* processes whose lower-cased name equals the process-name override (or
\* the default) or contains the application name, a process whose name
\* cannot be read being left out.
C25_MatchedProcesses ==
    pc = "found" =>
        app_pids = {p.pid : p \in {q \in procs :
                        /\ q.readable
                        /\ \/ Lower(q.name) = ProcessNameOverride
                           \/ IsSubstr(app_name, Lower(q.name))}}

\* C25: the matched-process set is the set of pids of the running processes
\* whose lower-cased name equals the lower-cased process-name override (or
\* default) or contains the application name; a process whose name cannot be
\* read is left out, and the set may be empty.
C25_MatchedProcessesLowered ==
    pc = "found" =>
        app_pids = {p.pid : p \in {q \in procs :
                        /\ q.readable
                        /\ \/ Lower(q.name) = Lower(ProcessNameOverride)
                           \/ IsSubstr(app_name, Lower(q.name))}}

\* Three processes: one matches the override, one has the same name but
\* cannot be read, one only contains the application name.
C25_Witness ==
    /\ pc = "found"
    /\ app_name = S_bcompare
    /\ app_config.has_process_name
    /\ {p.pid : p \in procs} = {3, 4, 6}
    /\ app_pids = {3, 4}

\* The persisted handle is usable: it was read, is still a window, and is in
\* the matched list.
LastWindowUsable == LastWindowValid /\ last_hwnd \in MatchedHandles

\* C26: when the persisted handle is not usable and the foreground window is
\* not in the matched list, focus_app selects the first window of the list.
C26_FirstWindowByDefault ==
    (/\ Selected
     /\ windows # <<>>
     /\ ~LastWindowUsable
     /\ current_hwnd \notin MatchedHandles)
        => hwnd = windows[1].hwnd

\* The windows for which a lookup raised during the enumeration.
FailedLookups == lookups.nameFail \cup lookups.pidFail

\* C30: a window for which the class, title or process lookup raised during
\* the enumeration is not in the list returned by find_app_windows, and
\* every other window is in the list exactly when it qualifies and no filter
\* drops it.
C30_FailedLookupSkipped ==
    pc = "found" =>
        \A h \in DOMAIN desktop :
            IF h \in FailedLookups
            THEN h \notin MatchedHandles
            ELSE h \in MatchedHandles <=> (Qualifies(h) /\ Unfiltered(h))

\* C29: no run of main ends with an uncaught exception; a run that has
\* ended has exit status 0 or 1.
C29_NoUncaughtException ==
    /\ pc # "uncaught"
    /\ pc = "exit" => (success \in {"true", "false"} /\ ExitStatus \in {0, 1})

\* C27: loading an existing state document keeps every key the document had,
\* adds every missing top-level section and every missing global tunable from
\* the defaults, and writes the completed document back to storage whenever
\* at least one key was added.
C27_LoadCompletesAndWritesBack ==
    [][(loaded = <<>> /\ loaded' # <<>>) =>
        /\ \A q \in DOMAIN file : q \in DOMAIN loaded' /\ loaded'[q] = file[q]
        /\ \A sec \in Sections(program) : <<sec>> \in DOMAIN loaded'
        /\ \A t \in Tunables(program) : <<"global", t>> \in DOMAIN loaded'
        /\ DOMAIN loaded' # DOMAIN file => (saves' # <<>> /\ file' = loaded')]_vars

\* C28: after any sequence of log calls the log file holds at most
\* max_log_lines lines, the lines kept are the most recent events in order,
\* and the most recent event is the last line.
C28_LogBounded ==
    /\ Len(log_file) <= max_log_lines
    /\ \A i \in 1..Len(log_file) : log_file[i] = events - Len(log_file) + i
    /\ events > 0 => (log_file # <<>> /\ log_file[Len(log_file)] = events)

\* The title t holds the string q at some position.
Holds(t, q) ==
    \E i \in 0..(Len(t) - Len(q)) : \A j \in 1..Len(q) : t[i + j] = q[j]

\* The patterns of the domain tested, lower-cased: the domain, its www. and
\* https:// variants, its first label, its own patterns, the configured ones.
PatternsOfDomain ==
    (IF domain = S_github_com
     THEN {S_github_com, S_www \o S_github_com, S_https \o S_github_com,
           S_https \o S_www \o S_github_com, <<"g", "i", "t", "h", "u", "b">>}
     ELSE {S_perplexity_ai, S_www \o S_perplexity_ai, S_https \o S_perplexity_ai,
           S_https \o S_www \o S_perplexity_ai,
           <<"p", "e", "r", "p", "l", "e", "x", "i", "t", "y">>,
           S_im_looking_for, S_perplexity_search, S_perplexity_dash,
           S_perplexity_ai_words, S_perplexity_ai_search})
    \cup {Lower(q) : q \in patterns}

\* C32: for perplexity.ai the title "I'm looking for - Perplexity" matches;
\* with a non-empty domain is_matching_tab returns true exactly when the
\* lower-cased title is non-empty and holds a lower-cased pattern of the
\* domain (the domain, its www. and https:// variants, its first label, the
\* domain-specific patterns, the configured extra patterns).
C32_MatchesIffPatternHeld ==
    \A i \in 1..Len(tests) :
        /\ (domain = S_perplexity_ai /\ tests[i].title = S_Im_looking_for_Perplexity)
               => tests[i].result
        /\ tests[i].result <=>
               (/\ Lower(tests[i].title) # <<>>
                /\ \E q \in PatternsOfDomain : Holds(Lower(tests[i].title), q))

\* The scenario's title has been tested for perplexity.ai and matched.
C32_Witness ==
    /\ domain = S_perplexity_ai
    /\ \E i \in 1..Len(tests) :
          tests[i].title = S_Im_looking_for_Perplexity /\ tests[i].result

\* C33: in technique 2 every synthesized press of the modifier key is
\* followed by its release before focus_window returns, on every path: the
\* key is not held when focus_window has returned.
C33_ModifierReleased ==
    (2 \in {attempted[i] : i \in 1..Len(attempted)} /\ fwResult # "none") => ~altDown

\* C35: the selection state entry is set to a handle h only when the
\* foreground window was just read as h, and when focus_window has returned
\* failure the entry is as it was at entry and focus_window issued no write.
C35_FailureLeavesSelection ==
    /\ [][(/\ pc # "idle"
           /\ config'.last_focused[app_name] # config.last_focused[app_name]
           /\ config'.last_focused[app_name] # NoHandle)
              => foreground' = config'.last_focused[app_name]]_vars
    /\ [](fwResult = "false" =>
             /\ writes = <<>>
             /\ config.last_focused[app_name] \in {last_hwnd, NoHandle})

\* C37: when focus_app reads the Control key as held, the application is
\* launched and the launch result is returned: no window is enumerated, no
\* focus attempt is made and the selection state is left as it was, even
\* when matching windows exist.
C37_ControlLaunchesOnly ==
    [][(ctrl' /\ ~ctrl) =>
          /\ launched' /\ Len(launchResults') = 1
          /\ success' = launchResults'[1]
          /\ pc' = "exit"
          /\ windows' = <<>> /\ app_pids' = {}
          /\ focusCalls' = <<>> /\ attempted' = <<>> /\ fwResult' = "none"
          /\ config' = config /\ disk' = disk /\ writes' = <<>>
          /\ foreground' = foreground]_vars

\* The Control key was held while a window of the application was open: the
\* launch was made and failed.
C37_Witness ==
    /\ ctrl /\ pc = "exit"
    /\ launched /\ success = "false"
    /\ \E h \in DOMAIN desktop : Qualifies(h)

\* The next-tab key combinations sent in the run.
NextTabKeys == Cardinality({i \in 1..Len(keys) : keys[i] = "ctrl+tab"})

\* C34: when cycle_through_tabs succeeds after the jump to the first tab,
\* the last-known position of the domain is the number of next-tab key
\* combinations sent in the run (0 for a match on the first tab) and the
\* document is handed to save_config; when it returns failure the
\* last-known position is as it was and nothing is written.
C34_PositionIsKeysSent ==
    /\ (cycle_result = "true" /\ keys # <<>>) =>
          /\ last_position = NextTabKeys
          /\ tab_writes = <<NextTabKeys>>
    /\ cycle_result = "false" =>
          /\ last_position = 0 /\ tab_disk = 0
          /\ tab_writes = <<>>

\* The matching tab was found two tabs to the right of the first one.
C34_Witness ==
    /\ cycle_result = "true"
    /\ keys = <<"ctrl+1", "ctrl+tab", "ctrl+tab">>
    /\ last_position = 2
    /\ tab_disk = 2

\* Both invocations have finished and one of them wrote.
BothFinished ==
    /\ \A i \in Invocations : invocations[i].at = "done"
    /\ \E i \in Invocations : invocations[i].wrote > 0

\* The invocation that wrote last.
LastWriter ==
    CHOOSE i \in Invocations :
        \A j \in Invocations : invocations[j].wrote <= invocations[i].wrote

\* C31: two invocations that share the state document read it once at
\* startup and rewrite it whole after a successful focus, with no locking;
\* after both finish the stored document is the in-memory document of the
\* invocation that wrote last.
C31_LastWriterWins ==
    (invocations # <<>> /\ BothFinished) =>
        stored = json_dump(invocations[LastWriter].config)

\* cycle_app_windows cycled: more than one window matched and the
\* foreground window read is one of them.
Cycled == Len(windows) > 1 /\ IndexOf(windows, current_hwnd) # -1

\* The handle at 0-based index (i + k) mod N of the matched list, i the
\* index of the foreground window read.
HandleAfter(k) ==
    windows[((IndexOf(windows, current_hwnd) + k) % Len(windows)) + 1].hwnd

\* C36: in cycle_app_windows with more than one matched window and the
\* foreground window at index i, a failed focus of the window at index
\* (i+1) mod N is followed by exactly one further attempt, on the window at
\* index (i+2) mod N, which is never the failed handle; the result of that
\* attempt is the result returned; with N = 2 the second target is the
\* window that was read as foreground.
C36_RetryNextWindow ==
    /\ [][(/\ Cycled /\ pc = "exit" /\ fwResult = "false"
           /\ focusCalls = <<HandleAfter(1)>>)
              => /\ focusCalls' = <<HandleAfter(1), HandleAfter(2)>>
                 /\ hwnd' = HandleAfter(2)
                 /\ HandleAfter(2) # HandleAfter(1)
                 /\ Len(windows) = 2 => HandleAfter(2) = current_hwnd
                 /\ pc' = "fw_entry"]_vars
    /\ [](/\ Len(focusCalls) <= 2
          /\ Len(focusCalls) = 2 =>
                /\ Cycled
                /\ focusCalls = <<HandleAfter(1), HandleAfter(2)>>
                /\ pc = "exit" => success = fwResult)

\* With two matched windows the first attempt failed and the second, on
\* the window read as foreground, has returned.
C36_Witness ==
    /\ pc = "exit"
    /\ Len(windows) = 2
    /\ Len(focusCalls) = 2
    /\ focusCalls[2] = current_hwnd
    /\ focusCalls[1] # current_hwnd
    /\ success = "true"

====
